---- MODULE Spec2Model ----
(***************************************************************************)
(* Market_SM: the spreadsheet reconciliation subsystem.                    *)
(*                                                                         *)
(*   apps/pavilions/services/pavilion_name_normalizer.py                   *)
(*   apps/pavilions/services/contracts_importer.py   (ContractsImporter)   *)
(*   apps/pavilions/services/meter_importer.py       (MeterImporter)       *)
(*   apps/pavilions/models.py                        (the relational store)*)
(*                                                                         *)
(* Text is a sequence of one-character strings.  The module language has   *)
(* no Cyrillic string literals, so Cyrillic letters are written in Latin   *)
(* transliteration: an upper-case token ("K", "V") is the upper-case     *)
(* Cyrillic letter, a lower-case token ("k", "v", "sch") the lower-case    *)
(* one.  One token is one character of the Python string.                  *)
(***************************************************************************)
EXTENDS Integers, Sequences, FiniteSets, TLC

(***************************************************************************)
(* Characters                                                              *)
(***************************************************************************)
Digit == {"0", "1", "2", "3", "4", "5", "6", "7", "8", "9"}

\* str.isspace(): what str.strip() removes and what the regex \s matches
WS == {" ", "\t"}

\* upper-case letters of the model alphabet (the regex class [А-ЯA-Z])
Upper == {"A", "B", "V", "G", "D", "E", "K", "M", "O", "P", "S", "H"}

\* str.lower() on one character
LowerChar(c) ==
    CASE c = "A" -> "a" [] c = "B" -> "b" [] c = "V" -> "v" [] c = "G" -> "g"
      [] c = "D" -> "d" [] c = "E" -> "e" [] c = "K" -> "k" [] c = "M" -> "m"
      [] c = "O" -> "o" [] c = "P" -> "p" [] c = "S" -> "s" [] c = "H" -> "h"
      [] OTHER -> c

Range(s) == {s[i] : i \in DOMAIN s}

(***************************************************************************)
(* Python string primitives                                                *)
(***************************************************************************)
RECURSIVE lstrip(_)
lstrip(s) == IF s # <<>> /\ Head(s) \in WS THEN lstrip(Tail(s)) ELSE s

RECURSIVE rstrip(_)
rstrip(s) ==
    IF s # <<>> /\ s[Len(s)] \in WS THEN rstrip(SubSeq(s, 1, Len(s) - 1)) ELSE s

\* str.strip()
strip(s) == rstrip(lstrip(s))

\* str.lower()
lower(s) == [i \in DOMAIN s |-> LowerChar(s[i])]

\* str.find(sub) + 1: the position of the first occurrence of sub, 0 if none
Find(s, sub) ==
    LET hits == {i \in 1..(Len(s) - Len(sub) + 1) :
                    SubSeq(s, i, i + Len(sub) - 1) = sub}
    IN  IF hits = {} THEN 0 ELSE CHOOSE i \in hits : \A j \in hits : i <= j

\* sub in s
Contains(s, sub) == Find(s, sub) # 0

\* s.split(sub)[0] and s.split(sub, 1)[0]
BeforeFirst(s, sub) ==
    IF Contains(s, sub) THEN SubSeq(s, 1, Find(s, sub) - 1) ELSE s

\* s.startswith(prefix)
startswith(s, prefix) ==
    Len(s) >= Len(prefix) /\ SubSeq(s, 1, Len(prefix)) = prefix

\* s.split(','): all the parts, empty ones included
RECURSIVE split(_, _)
split(s, c) ==
    IF ~Contains(s, <<c>>) THEN <<s>>
    ELSE <<SubSeq(s, 1, Find(s, <<c>>) - 1)>>
            \o split(SubSeq(s, Find(s, <<c>>) + 1, Len(s)), c)

\* str.isdigit()
isdigit(s) == s # <<>> /\ \A i \in DOMAIN s : s[i] \in Digit

\* re.sub(r'\s+', '', s)
RemoveWS(s) == SelectSeq(s, LAMBDA c : c \notin WS)

\* int(s) for a string of digits
DigitVal(c) ==
    CASE c = "0" -> 0 [] c = "1" -> 1 [] c = "2" -> 2 [] c = "3" -> 3
      [] c = "4" -> 4 [] c = "5" -> 5 [] c = "6" -> 6 [] c = "7" -> 7
      [] c = "8" -> 8 [] c = "9" -> 9

RECURSIVE int(_)
int(s) == IF s = <<>> THEN 0
          ELSE 10 * int(SubSeq(s, 1, Len(s) - 1)) + DigitVal(s[Len(s)])

(***************************************************************************)
(* pavilion_name_normalizer.py                                             *)
(***************************************************************************)
\* 'Г21/1 (2 этаж)' -> 'Г21/1'
CutAnnotation(base) ==
    IF Contains(base, <<" ", "(">>)
    THEN strip(BeforeFirst(base, <<" ", "(">>))
    ELSE base

\* the suffix rule that never cuts
CutSuffixAt_keeps(base, before_space) == base

\* 'Е11/1 5квт' -> 'Е11/1': cut at the first space when the text before it
\* ends in a digit
CutSuffixAt(base, before_space) ==
    IF before_space # <<>> /\ before_space[Len(before_space)] \in Digit
    THEN before_space
    ELSE base

CutSuffix(base) ==
    IF Contains(base, <<" ">>)
    THEN CutSuffixAt(base, BeforeFirst(base, <<" ">>))
    ELSE base

normalize_single_name(name) == CutSuffix(CutAnnotation(strip(name)))

\* the literal 'общий ' (six characters, the last one a space)
SharedMarker == <<"o", "b", "sch", "i", "j", " ">>

\* re.match(r'^(.+/\s*)(\d+)$', first): the length of group(1), 0 if no match.
\* .+ is greedy, so group(1) ends after the last '/' that is followed by
\* optional whitespace and then digits only up to the end of the string.
PrefixMatchLen(first) ==
    LET ok == {k \in 2..Len(first) :
                  /\ first[k] = "/"
                  /\ \E w \in k..(Len(first) - 1) :
                        /\ \A i \in (k + 1)..w : first[i] \in WS
                        /\ \A i \in (w + 1)..Len(first) : first[i] \in Digit}
        k == CHOOSE x \in ok : \A y \in ok : y <= x
        w == CHOOSE x \in k..(Len(first) - 1) :
                /\ \A i \in (k + 1)..x : first[i] \in WS
                /\ \A i \in (x + 1)..Len(first) : first[i] \in Digit
                /\ \A y \in (x + 1)..(Len(first) - 1) :
                      ~(\A i \in (k + 1)..y : first[i] \in WS)
    IN  IF ok = {} THEN 0 ELSE w

\* [p.strip() for p in base.split(',') if p.strip()]
StripAll(raw) == [i \in DOMAIN raw |-> strip(raw[i])]

CommaParts(base) ==
    SelectSeq(StripAll(split(base, ",")), LAMBDA p : p # <<>>)

\* the shared-meter rule without the cut at the first comma
FirstListed_keeps_list(rest) == rest

\* the shared-meter rule on the trimmed text after the marker:
\* base = base[6:].strip(); if ',' in base: base = base.split(',')[0].strip()
FirstListed(rest) ==
    IF Contains(rest, <<",">>) THEN strip(BeforeFirst(rest, <<",">>)) ELSE rest

\* base after the shared-meter rule, for the trimmed location text
SharedBase(base) ==
    IF startswith(lower(base), SharedMarker)
    THEN FirstListed(strip(SubSeq(base, 7, Len(base))))
    ELSE base

\* the name and, when different, its form without whitespace
Variants(normalized, normalized_no_spaces) ==
    IF normalized = normalized_no_spaces
    THEN <<normalized>>
    ELSE <<normalized, normalized_no_spaces>>

\* the prefix branch taken as the other branch: every part on its own
ExpandWithPrefix_independent(first, prefix, parts) == [i \in DOMAIN parts |-> normalize_single_name(parts[i])]

\* the result of the prefix branch: first, then each later part with the
\* prefix (digits) or normalized on its own
ExpandWithPrefix(first, prefix, parts) ==
    <<first>> \o
    [i \in 1..(Len(parts) - 1) |->
        IF isdigit(parts[i + 1])
        THEN prefix \o parts[i + 1]
        ELSE normalize_single_name(parts[i + 1])]

\* the comma branch once the first part is normalized and matched
ExpandParts(first, plen, parts) ==
    IF plen # 0
    THEN ExpandWithPrefix(first, RemoveWS(SubSeq(first, 1, plen)), parts)
    ELSE [i \in DOMAIN parts |-> normalize_single_name(parts[i])]

ExpandFirst(first, parts) == ExpandParts(first, PrefixMatchLen(first), parts)

ExpandList(parts) ==
    IF parts = <<>> THEN <<>>
    ELSE ExpandFirst(normalize_single_name(parts[1]), parts)

ExpandSingle(normalized) == Variants(normalized, RemoveWS(normalized))

ExpandBase(base) ==
    IF ~Contains(base, <<",">>)
    THEN ExpandSingle(normalize_single_name(base))
    ELSE ExpandList(CommaParts(base))

expand_location_to_pavilion_names(location_name) ==
    ExpandBase(SharedBase(strip(location_name)))

(***************************************************************************)
(* models.py: the relational store                                         *)
(*                                                                         *)
(* db.Building, db.Tenant, db.Contract and db.ElectricityMeter are tables  *)
(* whose row id is the index in the sequence (rows are never deleted by    *)
(* the importers); db.Pavilion maps a pavilion id to its row;              *)
(* db.ElectricityReading is the set of reading rows.                       *)
(***************************************************************************)
NoneVal == 0

\* Building names.  BuildingRank is their order under Building.Meta.ordering
\* = ['name'] (the alphabetical order of the Cyrillic names).
Veshchevoy     == "Veshchevoy"
OsnovnoyRynok  == "Osnovnoy rynok"
SlavyanskiyStan == "Slavyanskiy Stan"
Stroitelnyy    == "Stroitelnyy"

BuildingRank(name) ==
    CASE name = Veshchevoy -> 1 [] name = OsnovnoyRynok -> 2
      [] name = SlavyanskiyStan -> 3 [] name = Stroitelnyy -> 4

\* Manager.get_or_create(name=...): the ids of the rows with that name
Matches(table, name) == {i \in DOMAIN table : table[i].name = name}

\* the row get() returns when exactly one matches
TheMatch(table, name) == CHOOSE i \in Matches(table, name) : TRUE

\* Pavilion.objects.filter(name=candidate)[.filter(building=building)].first()
\* under Pavilion.Meta.ordering = ['building', 'row', 'name']; building is a
\* Building id, NoneVal for the unscoped query.  The result is a pavilion id,
\* NoneVal if nothing matches.
PavilionFirst(db, candidate, building) ==
    LET hits == {p \in DOMAIN db.Pavilion :
                    /\ db.Pavilion[p].name = candidate
                    /\ (building # NoneVal => db.Pavilion[p].building = building)}
        key(p) == BuildingRank(db.Building[db.Pavilion[p].building].name) * 100 + p
    IN  IF hits = {} THEN NoneVal
        ELSE CHOOSE p \in hits : \A q \in hits : key(p) <= key(q)

(***************************************************************************)
(* pavilion_name_normalizer.find_pavilions_by_names                        *)
(***************************************************************************)
\* the inner loop over the candidates of one name: the pavilion appended to
\* found, NoneVal if the loop ends without a break
RECURSIVE TryCandidates(_, _, _, _)
TryCandidates(db, candidates, building, seen_ids) ==
    IF candidates = <<>> THEN NoneVal
    ELSE LET candidate == Head(candidates)
             pavilion  == PavilionFirst(db, candidate, building)
         IN  IF candidate = <<>>
             THEN TryCandidates(db, Tail(candidates), building, seen_ids)
             ELSE IF pavilion # NoneVal /\ pavilion \notin seen_ids
             THEN pavilion
             ELSE TryCandidates(db, Tail(candidates), building, seen_ids)

RECURSIVE FindLoop(_, _, _, _)
FindLoop(db, names, building, found) ==
    IF names = <<>> THEN found
    ELSE LET name == Head(names)
             normalized == RemoveWS(name)
             candidates == IF normalized # name THEN <<name, normalized>>
                           ELSE <<name>>
             hit == TryCandidates(db, candidates, building, Range(found))
         IN  IF name = <<>> \/ hit = NoneVal
             THEN FindLoop(db, Tail(names), building, found)
             ELSE FindLoop(db, Tail(names), building, Append(found, hit))

find_pavilions_by_names(db, names, building) ==
    FindLoop(db, names, building, <<>>)

(***************************************************************************)
(* contracts_importer.py: ContractsImporter                                *)
(*                                                                         *)
(* The importer's working state is S = [db, stats, errors].  An entry of   *)
(* errors is a record standing for the formatted message.  A fault is an   *)
(* exception raised by the store at one of the numbered statements of      *)
(* _process_row; fault = "none" is the run without one.                    *)
(***************************************************************************)
ContractsStats0 ==
    [tenants_created |-> 0, tenants_updated |-> 0, contracts_created |-> 0,
     contracts_updated |-> 0, pavilions_updated |-> 0,
     unmatched_pavilions |-> <<>>]

\* the character class [А-ЯA-Z0-9]
CodeChar == Upper \cup Digit

\* re.search(r'(КК/[А-ЯA-Z0-9]+)', contract_name): group(1), <<>> for None
Contracts_extract_building_code(contract_name) ==
    LET n == Len(contract_name)
        starts == {i \in 1..(n - 3) :
                      /\ SubSeq(contract_name, i, i + 2) = <<"K", "K", "/">>
                      /\ contract_name[i + 3] \in CodeChar}
        i == CHOOSE x \in starts : \A y \in starts : x <= y
        ends == {j \in (i + 3)..n :
                    \A k \in (i + 3)..j : contract_name[k] \in CodeChar}
        j == CHOOSE x \in ends : \A y \in ends : y <= x
    IN  IF starts = {} THEN <<>> ELSE SubSeq(contract_name, i, j)

BuildingCodes ==
    {<<"K", "K", "/", "A", "P">>, <<"K", "K", "/", "V">>,
     <<"K", "K", "/", "M">>, <<"K", "K", "/", "M", "B">>}

BUILDING_CODE_MAP ==
    [code \in BuildingCodes |->
        CASE code = <<"K", "K", "/", "A", "P">> -> SlavyanskiyStan
          [] code = <<"K", "K", "/", "V">> -> Veshchevoy
          [] code = <<"K", "K", "/", "M">> -> Stroitelnyy
          [] code = <<"K", "K", "/", "M", "B">> -> Stroitelnyy]

DEFAULT_BUILDING_NAME == OsnovnoyRynok

\* Building.objects.get_or_create(name=building_name): the table afterwards
Building_get_or_create(table, building_name) ==
    IF Matches(table, building_name) = {}
    THEN Append(table, [name |-> building_name])
    ELSE table

\* the building name for the extracted code
BuildingNameFor(code) ==
    IF code # <<>> /\ code \in DOMAIN BUILDING_CODE_MAP
    THEN BUILDING_CODE_MAP[code]
    ELSE DEFAULT_BUILDING_NAME

\* a faulty variant of the lookup: an unknown code falls back silently
CodeErrors_silent(errs, code, contract_name) == errs

\* errors after the lookup of the code: a warning for an unknown code
CodeErrors(errs, code, contract_name) ==
    IF code # <<>> /\ code \notin DOMAIN BUILDING_CODE_MAP
    THEN Append(errs, [kind |-> "unknown_code", code |-> code,
                       contract |-> contract_name])
    ELSE errs

\* [S, building] once the name is known; building is the Building id
GetBuilding(S, errs, table, building_name) ==
    [S |-> [S EXCEPT !.errors = errs, !.db.Building = table],
     building |-> TheMatch(table, building_name)]

GetBuildingNamed(S, errs, building_name) ==
    GetBuilding(S, errs, Building_get_or_create(S.db.Building, building_name),
                building_name)

GetBuildingForCode(S, code, contract_name) ==
    GetBuildingNamed(S, CodeErrors(S.errors, code, contract_name),
                     BuildingNameFor(code))

\* _get_building_from_contract: [S, building]
Contracts_get_building_from_contract(S, contract_name) ==
    GetBuildingForCode(S, Contracts_extract_building_code(contract_name),
                       contract_name)

\* a collected Pavilion object: the id and the row as the query returned it
PavObj(db, p) == [id |-> p, row |-> db.Pavilion[p]]

\* the 'moved' warning for a pavilion found outside the derived building
MovedError(db, name, pav, building, contract_name) ==
    [kind |-> "moved", name |-> name,
     old |-> db.Building[db.Pavilion[pav].building].name,
     new |-> db.Building[building].name, contract |-> contract_name]

\* a faulty variant of the step-3 body: a pavilion found by the unscoped
\* query is accepted without the warning
Contracts_resolve_name_silent(S, name, building, contract_name, found, in_building, anywhere) ==
    IF in_building # <<>>
    THEN [S |-> S, found |-> Append(found, PavObj(S.db, in_building[1]))]
    ELSE IF anywhere # <<>>
    THEN [S |-> S, found |-> Append(found, PavObj(S.db, anywhere[1]))]
    ELSE IF name \notin Range(S.stats.unmatched_pavilions)
    THEN [S |-> [S EXCEPT !.stats.unmatched_pavilions = Append(@, name)],
          found |-> found]
    ELSE [S |-> S, found |-> found]

\* a faulty variant of the step-3 body: a name found nowhere gets a new
\* pavilion in the derived building
Contracts_resolve_name_creates(S, name, building, contract_name, found, in_building, anywhere) ==
    IF in_building # <<>>
    THEN [S |-> S, found |-> Append(found, PavObj(S.db, in_building[1]))]
    ELSE IF anywhere # <<>>
    THEN [S |-> [S EXCEPT !.errors =
                    Append(@, MovedError(S.db, name, anywhere[1], building,
                                         contract_name))],
          found |-> Append(found, PavObj(S.db, anywhere[1]))]
    ELSE [S |-> [S EXCEPT !.db.Pavilion =
                    Append(@, [name |-> name, building |-> building,
                               tenant |-> NoneVal, contract |-> NoneVal,
                               status |-> "free"])],
          found |-> found]

\* a faulty variant of the step-3 body: the unscoped query is taken first
Contracts_resolve_name_unscoped(S, name, building, contract_name, found, in_building, anywhere) ==
    IF anywhere # <<>>
    THEN [S |-> S, found |-> Append(found, PavObj(S.db, anywhere[1]))]
    ELSE IF name \notin Range(S.stats.unmatched_pavilions)
    THEN [S |-> [S EXCEPT !.stats.unmatched_pavilions = Append(@, name)],
          found |-> found]
    ELSE [S |-> S, found |-> found]

\* the body of the step-3 loop for one name, given the results of the scoped
\* and the unscoped query: [S, found]
Contracts_resolve_name(S, name, building, contract_name, found, in_building, anywhere) ==
    IF in_building # <<>>
    THEN [S |-> S, found |-> Append(found, PavObj(S.db, in_building[1]))]
    ELSE IF anywhere # <<>>
    THEN [S |-> [S EXCEPT !.errors =
                    Append(@, MovedError(S.db, name, anywhere[1], building,
                                         contract_name))],
          found |-> Append(found, PavObj(S.db, anywhere[1]))]
    ELSE IF name \notin Range(S.stats.unmatched_pavilions)
    THEN [S |-> [S EXCEPT !.stats.unmatched_pavilions = Append(@, name)],
          found |-> found]
    ELSE [S |-> S, found |-> found]

\* step 3 of _process_row: the loop over the expanded names, [S, found]
RECURSIVE Contracts_resolve(_, _, _, _)
Contracts_resolve(acc, names, building, contract_name) ==
    IF names = <<>> THEN acc
    ELSE Contracts_resolve(
             Contracts_resolve_name(
                 acc.S, Head(names), building, contract_name, acc.found,
                 find_pavilions_by_names(acc.S.db, <<Head(names)>>, building),
                 find_pavilions_by_names(acc.S.db, <<Head(names)>>, NoneVal)),
             Tail(names), building, contract_name)

\* a faulty variant of step 4: the INN of the row is stored whenever it
\* differs, an empty one included
UpsertTenant_overwrite(S, tenant_name, inn, hits) ==
    IF hits = {}
    THEN [S |-> [S EXCEPT !.db.Tenant =
                             Append(@, [name |-> tenant_name, inn |-> inn]),
                          !.stats.tenants_created = @ + 1],
          tenant |-> Len(S.db.Tenant) + 1, raised |-> FALSE]
    ELSE IF Cardinality(hits) > 1
    THEN [S |-> S, tenant |-> NoneVal, raised |-> TRUE]
    ELSE LET t == CHOOSE x \in hits : TRUE IN
         IF S.db.Tenant[t].inn # inn
         THEN [S |-> [S EXCEPT !.db.Tenant[t].inn = inn,
                               !.stats.tenants_updated = @ + 1],
               tenant |-> t, raised |-> FALSE]
         ELSE [S |-> S, tenant |-> t, raised |-> FALSE]

\* step 4: Tenant.objects.get_or_create(name=tenant_name, defaults={'inn': inn})
\* and the INN update, given the ids of the tenants with the name.  get()
\* raises MultipleObjectsReturned when several tenants carry the name.
UpsertTenant(S, tenant_name, inn, hits) ==
    IF hits = {}
    THEN [S |-> [S EXCEPT !.db.Tenant =
                             Append(@, [name |-> tenant_name, inn |-> inn]),
                          !.stats.tenants_created = @ + 1],
          tenant |-> Len(S.db.Tenant) + 1, raised |-> FALSE]
    ELSE IF Cardinality(hits) > 1
    THEN [S |-> S, tenant |-> NoneVal, raised |-> TRUE]
    ELSE LET t == CHOOSE x \in hits : TRUE IN
         IF inn # <<>> /\ S.db.Tenant[t].inn # inn
         THEN [S |-> [S EXCEPT !.db.Tenant[t].inn = inn,
                               !.stats.tenants_updated = @ + 1],
               tenant |-> t, raised |-> FALSE]
         ELSE [S |-> S, tenant |-> t, raised |-> FALSE]

Contracts_upsert_tenant(S, tenant_name, inn) ==
    UpsertTenant(S, tenant_name, inn, Matches(S.db.Tenant, tenant_name))

\* step 5: Contract.objects.get_or_create(name=contract_name)
UpsertContract(S, contract_name, hits) ==
    IF hits = {}
    THEN [S |-> [S EXCEPT !.db.Contract = Append(@, [name |-> contract_name]),
                          !.stats.contracts_created = @ + 1],
          contract |-> Len(S.db.Contract) + 1, raised |-> FALSE]
    ELSE IF Cardinality(hits) > 1
    THEN [S |-> S, contract |-> NoneVal, raised |-> TRUE]
    ELSE [S |-> S, contract |-> CHOOSE x \in hits : TRUE, raised |-> FALSE]

Contracts_upsert_contract(S, contract_name) ==
    UpsertContract(S, contract_name, Matches(S.db.Contract, contract_name))

\* a faulty variant of the assignments: the status is left as it was
Contracts_link_keep_status(row, building, tenant, contract) ==
    [row EXCEPT !.building = building, !.tenant = tenant,
                !.contract = contract]

\* the body of the step-6 loop for one collected object: the object after
\* the four assignments
Contracts_link(row, building, tenant, contract) ==
    [row EXCEPT !.building = building, !.tenant = tenant,
                !.contract = contract, !.status = "rented"]

\* a faulty variant of the step-6 body: the object is written and counted
\* whether or not a field differed
Contracts_save_always(S, pav, linked) ==
    [S EXCEPT !.db.Pavilion[pav.id] = linked,
              !.stats.pavilions_updated = @ + 1]

\* the body of the step-6 loop for one object, linked being the object after
\* the assignments: needs_update holds when a field differed; pav.save()
\* writes the whole object
Contracts_save_if_changed(S, pav, linked) ==
    IF linked # pav.row
    THEN [S EXCEPT !.db.Pavilion[pav.id] = linked,
                   !.stats.pavilions_updated = @ + 1]
    ELSE S

\* step 6: the loop over found_pavilions
RECURSIVE Contracts_update_pavilions(_, _, _, _, _)
Contracts_update_pavilions(S, found, building, tenant, contract) ==
    IF found = <<>> THEN S
    ELSE Contracts_update_pavilions(
             Contracts_save_if_changed(
                 S, Head(found),
                 Contracts_link(Head(found).row, building, tenant, contract)),
             Tail(found), building, tenant, contract)

\* whether some pav.save() of step 6 is executed
SomeSave(found, building, tenant, contract) ==
    \E i \in DOMAIN found :
        Contracts_link(found[i].row, building, tenant, contract) # found[i].row

FaultPoints == {"building", "tenant", "contract", "save"}

\* what _process_row hands back to the model: the working state, whether it
\* raised, whether the row was skipped as empty, and its locals
RowOut(S, raised, skipped, names, found, building, tenant, contract) ==
    [S |-> S, raised |-> raised, skipped |-> skipped, names |-> names,
     found |-> [i \in DOMAIN found |-> found[i].id], building |-> building,
     tenant |-> tenant, contract |-> contract]

\* step 6
Contracts_row_step6(names, r, building, t, c, fault) ==
    IF c.raised \/ fault = "contract"
    THEN RowOut(t.S, TRUE, FALSE, names, r.found, building, t.tenant, NoneVal)
    ELSE IF fault = "save" /\ SomeSave(r.found, building, t.tenant, c.contract)
    THEN RowOut(c.S, TRUE, FALSE, names, r.found, building, t.tenant,
                c.contract)
    ELSE RowOut(Contracts_update_pavilions(c.S, r.found, building, t.tenant,
                                           c.contract),
                FALSE, FALSE, names, r.found, building, t.tenant, c.contract)

\* step 5
Contracts_row_step5(names, r, building, t, contract_name, fault) ==
    IF t.raised \/ fault = "tenant"
    THEN RowOut(r.S, TRUE, FALSE, names, r.found, building, NoneVal, NoneVal)
    ELSE Contracts_row_step6(
             names, r, building, t,
             IF fault = "contract"
             THEN [S |-> t.S, contract |-> NoneVal, raised |-> TRUE]
             ELSE Contracts_upsert_contract(t.S, contract_name),
             fault)

\* a faulty variant of step 4: the early return for an empty result is
\* left out
Contracts_row_step4_no_return(names, r, building, tenant_name, inn, contract_name, fault) ==
    Contracts_row_step5(
        names, r, building,
        IF fault = "tenant"
        THEN [S |-> r.S, tenant |-> NoneVal, raised |-> TRUE]
        ELSE Contracts_upsert_tenant(r.S, tenant_name, inn),
        contract_name, fault)

\* `if not found_pavilions: return` and step 4
Contracts_row_step4(names, r, building, tenant_name, inn, contract_name, fault) ==
    IF r.found = <<>>
    THEN RowOut(r.S, FALSE, FALSE, names, <<>>, building, NoneVal, NoneVal)
    ELSE Contracts_row_step5(
             names, r, building,
             IF fault = "tenant"
             THEN [S |-> r.S, tenant |-> NoneVal, raised |-> TRUE]
             ELSE Contracts_upsert_tenant(r.S, tenant_name, inn),
             contract_name, fault)

\* steps 2 and 3
Contracts_row_step3(b, names, tenant_name, inn, contract_name, fault) ==
    Contracts_row_step4(
        names,
        Contracts_resolve([S |-> b.S, found |-> <<>>], names, b.building,
                          contract_name),
        b.building, tenant_name, inn, contract_name, fault)

\* the empty-field check and step 1
Contracts_row_step1(S, tenant_name, inn, contract_name, pavilion_names_str, fault) ==
    IF tenant_name = <<>> \/ contract_name = <<>> \/ pavilion_names_str = <<>>
    THEN RowOut(S, FALSE, TRUE, <<>>, <<>>, NoneVal, NoneVal, NoneVal)
    ELSE IF fault = "building"
    THEN RowOut(S, TRUE, FALSE, <<>>, <<>>, NoneVal, NoneVal, NoneVal)
    ELSE Contracts_row_step3(
             Contracts_get_building_from_contract(S, contract_name),
             expand_location_to_pavilion_names(pavilion_names_str),
             tenant_name, inn, contract_name, fault)

\* _process_row
Contracts_process_row(S, row, fault) ==
    Contracts_row_step1(S, strip(row.tenant), strip(row.inn),
                        strip(row.contract), strip(row.object), fault)

(***************************************************************************)
(* models.py: ElectricityReading.save                                      *)
(***************************************************************************)
\* SQL NULL / Python None in a nullable numeric column
Null == -999999

\* a faulty variant of the query: order_by('date') in place of
\* order_by('-date'), so the earliest prior reading is taken
PreviousReading_earliest(table, meter, date) ==
    LET earlier == {i \in DOMAIN table :
                       table[i].meter = meter /\ table[i].date < date}
    IN  IF earlier = {} THEN NoneVal
        ELSE CHOOSE i \in earlier :
                 \A j \in earlier : table[i].date < table[j].date
                                    \/ (table[j].date = table[i].date /\ i <= j)

\* the reading of the meter with the greatest date strictly before date
\* (filter(meter=..., date__lt=...).order_by('-date').first()), NoneVal if none
PreviousReading(table, meter, date) ==
    LET earlier == {i \in DOMAIN table :
                       table[i].meter = meter /\ table[i].date < date}
    IN  IF earlier = {} THEN NoneVal
        ELSE CHOOSE i \in earlier :
                 \A j \in earlier : table[j].date < table[i].date
                                    \/ (table[j].date = table[i].date /\ i <= j)

\* the consumption save() stores for obj: `not self.consumption` holds for
\* None and for Decimal 0
ElectricityReading_consumption(table, obj) ==
    LET previous_reading == PreviousReading(table, obj.meter, obj.date)
    IN  IF obj.consumption = Null \/ obj.consumption = 0
        THEN IF previous_reading # NoneVal
             THEN obj.meter_reading - table[previous_reading].meter_reading
             ELSE 0
        ELSE obj.consumption

\* save(): obj.id = NoneVal inserts a row, otherwise the row obj.id is
\* written.  Values are in hundredths (DecimalField(decimal_places=2)).
ElectricityReading_save(table, obj) ==
    LET row == [meter |-> obj.meter, date |-> obj.date,
                meter_reading |-> obj.meter_reading,
                consumption |-> ElectricityReading_consumption(table, obj)]
    IN  IF obj.id = NoneVal THEN Append(table, row)
        ELSE [table EXCEPT ![obj.id] = row]

(***************************************************************************)
(* meter_importer.py: MeterImporter                                        *)
(***************************************************************************)
MeterStats0 ==
    [sheets_processed |-> 0, meters_created |-> 0, meters_updated |-> 0,
     readings_created |-> 0, unmatched_pavilions |-> <<>>]

Meter_normalize_single_name(name) == CutSuffix(CutAnnotation(strip(name)))

Meter_ExpandWithPrefix(first, prefix, parts) ==
    <<first>> \o
    [i \in 1..(Len(parts) - 1) |->
        IF isdigit(parts[i + 1])
        THEN prefix \o parts[i + 1]
        ELSE Meter_normalize_single_name(parts[i + 1])]

Meter_ExpandParts(first, plen, parts) ==
    IF plen # 0
    THEN Meter_ExpandWithPrefix(first, RemoveWS(SubSeq(first, 1, plen)), parts)
    ELSE [i \in DOMAIN parts |-> Meter_normalize_single_name(parts[i])]

Meter_ExpandFirst(first, parts) ==
    Meter_ExpandParts(first, PrefixMatchLen(first), parts)

Meter_ExpandList(parts) ==
    IF parts = <<>> THEN <<>>
    ELSE Meter_ExpandFirst(Meter_normalize_single_name(parts[1]), parts)

Meter_ExpandBase(base) ==
    IF ~Contains(base, <<",">>)
    THEN ExpandSingle(Meter_normalize_single_name(base))
    ELSE Meter_ExpandList(CommaParts(base))

Meter_expand_location_to_pavilion_names(location_name) ==
    Meter_ExpandBase(SharedBase(strip(location_name)))

\* the inner loop of _find_pavilions_by_names over (name, collapsed name):
\* [hit, p]: hit says that a candidate matched (the loop ended with break),
\* p is the pavilion (get(), or filter().first() when several match)
RECURSIVE Meter_try_candidates(_, _)
Meter_try_candidates(db, candidates) ==
    IF candidates = <<>> THEN [hit |-> FALSE, p |-> NoneVal]
    ELSE LET candidate == Head(candidates)
             p == PavilionFirst(db, candidate, NoneVal)
         IN  IF candidate = <<>> \/ p = NoneVal
             THEN Meter_try_candidates(db, Tail(candidates))
             ELSE [hit |-> TRUE, p |-> p]

RECURSIVE Meter_find_loop(_, _, _)
Meter_find_loop(db, names, found) ==
    IF names = <<>> THEN found
    ELSE LET name == Head(names)
             r == Meter_try_candidates(db, <<name, RemoveWS(name)>>)
         IN  IF r.hit /\ r.p \notin Range(found)
             THEN Meter_find_loop(db, Tail(names), Append(found, r.p))
             ELSE Meter_find_loop(db, Tail(names), found)

Meter_find_pavilions_by_names(db, names) == Meter_find_loop(db, names, <<>>)

\* the literal "Не на связи больше 168 часов"
StaleMarker ==
    <<"N", "e", " ", "n", "a", " ", "s", "v", "ya", "z", "i", " ",
      "b", "o", "l", "mz", "sh", "e", " ", "1", "6", "8", " ",
      "ch", "a", "s", "o", "v">>

\* re.sub(r'[^\d.,]', '', raw_reading).replace(',', '.')
CleanReading(raw_reading) ==
    LET kept == SelectSeq(raw_reading, LAMBDA c : c \in Digit \cup {".", ","})
    IN  [i \in DOMAIN kept |-> IF kept[i] = "," THEN "." ELSE kept[i]]

\* whether float(cleaned) succeeds for a string of digits and dots
FloatOk(cleaned) ==
    /\ \E i \in DOMAIN cleaned : cleaned[i] \in Digit
    /\ Cardinality({i \in DOMAIN cleaned : cleaned[i] = "."}) <= 1

\* float(cleaned) in hundredths, for at most two digits after the dot
FloatHundredths(cleaned) ==
    LET whole == BeforeFirst(cleaned, <<".">>)
        frac  == IF Contains(cleaned, <<".">>)
                 THEN SubSeq(cleaned, Find(cleaned, <<".">>) + 1, Len(cleaned))
                 ELSE <<>>
        frac2 == IF Len(frac) = 0 THEN <<"0", "0">>
                 ELSE IF Len(frac) = 1 THEN frac \o <<"0">>
                 ELSE SubSeq(frac, 1, 2)
    IN  int(whole) * 100 + int(frac2)

\* a faulty variant of the existence test: the guard is left out
ReadingExists_unguarded(table, meter, reading_date) == FALSE

\* ElectricityReading.objects.filter(meter=meter, date=reading_date).exists()
ReadingExists(table, meter, reading_date) ==
    \E i \in DOMAIN table :
        table[i].meter = meter /\ table[i].date = reading_date

\* the ElectricityReading object handed to create(): consumption unset
NewReading(meter, reading_date, meter_reading) ==
    [id |-> NoneVal, meter |-> meter, date |-> reading_date,
     meter_reading |-> meter_reading, consumption |-> Null]

\* the part of _process_reading after the stale-marker test, given the
\* cleaned text
Meter_reading_cleaned(S, meter, raw_reading, reading_date, cleaned_reading) ==
    IF cleaned_reading = <<>> THEN [S |-> S, outcome |-> "empty"]
    ELSE IF ~FloatOk(cleaned_reading)
    THEN [S |-> [S EXCEPT !.errors = Append(@,
                    [kind |-> "invalid_reading",
                     meter |-> S.db.ElectricityMeter[meter].meter_number,
                     raw |-> raw_reading])],
          outcome |-> "invalid"]
    ELSE IF ReadingExists(S.db.ElectricityReading, meter, reading_date)
    THEN [S |-> S, outcome |-> "duplicate"]
    ELSE [S |-> [S EXCEPT !.db.ElectricityReading =
                    ElectricityReading_save(@,
                        NewReading(meter, reading_date,
                                   FloatHundredths(cleaned_reading))),
                          !.stats.readings_created = @ + 1],
          outcome |-> "created"]

\* a faulty variant of _process_reading: the test for the marker is left out
Meter_process_reading_unmarked(S, meter, raw_reading, reading_date) ==
    Meter_reading_cleaned(S, meter, raw_reading, reading_date,
                          CleanReading(raw_reading))

\* _process_reading: [S, outcome], outcome naming the branch taken
Meter_process_reading(S, meter, raw_reading, reading_date) ==
    IF Contains(raw_reading, StaleMarker)
    THEN [S |-> [S EXCEPT !.errors = Append(@,
                    [kind |-> "stale",
                     meter |-> S.db.ElectricityMeter[meter].meter_number,
                     raw |-> raw_reading])],
          outcome |-> "stale"]
    ELSE Meter_reading_cleaned(S, meter, raw_reading, reading_date,
                               CleanReading(raw_reading))

\* the ids of the meters with the number
MeterMatches(table, meter_number) ==
    {i \in DOMAIN table : table[i].meter_number = meter_number}

\* a faulty variant of the binding: meter.pavilions.add(*pavilions)
Meter_add_pavilions(old, pavilions) == old \cup Range(pavilions)

\* meter.pavilions.set(pavilions): the associations of the meter afterwards
Meter_set_pavilions(old, pavilions) == Range(pavilions)

\* a faulty variant of the assignments: an unparseable hours text keeps the
\* hours stored before
Meter_assign_keep_hours(row, serial_number, location_name, last_verified_hours_ago, pavilions) ==
    [row EXCEPT !.pavilions = Meter_set_pavilions(@, pavilions),
                !.serial_number = IF serial_number # <<>>
                                  THEN serial_number ELSE @,
                !.location = location_name,
                !.last_verified_hours_ago =
                    IF last_verified_hours_ago # Null
                    THEN last_verified_hours_ago ELSE @]

\* the assignments after get_or_create and meter.save()
Meter_assign(row, serial_number, location_name, last_verified_hours_ago, pavilions) ==
    [row EXCEPT !.pavilions = Meter_set_pavilions(@, pavilions),
                !.serial_number = IF serial_number # <<>>
                                  THEN serial_number ELSE @,
                !.location = location_name,
                !.last_verified_hours_ago = last_verified_hours_ago]

\* the row get_or_create inserts from the defaults
Meter_defaults(meter_number, serial_number, location_name, last_verified_hours_ago) ==
    [meter_number |-> meter_number, serial_number |-> serial_number,
     location |-> location_name,
     last_verified_hours_ago |-> last_verified_hours_ago, pavilions |-> {}]

\* a faulty variant of the upsert: a meter is inserted whether or not one
\* carries the number
Meter_upsert_always_creates(table, meter_number, serial_number, location_name, last_verified_hours_ago, pavilions) ==
    [table |-> Append(table,
                  Meter_assign(Meter_defaults(meter_number, serial_number,
                                   location_name, last_verified_hours_ago),
                               serial_number, location_name,
                               last_verified_hours_ago, pavilions)),
     meter |-> Len(table) + 1, created |-> TRUE]

\* ElectricityMeter.objects.get_or_create(...) followed by the assignments
\* and meter.save(): [table, meter, created]
Meter_upsert(table, meter_number, serial_number, location_name, last_verified_hours_ago, pavilions) ==
    IF MeterMatches(table, meter_number) = {}
    THEN [table |-> Append(table,
                      Meter_assign(Meter_defaults(meter_number, serial_number,
                                       location_name, last_verified_hours_ago),
                                   serial_number, location_name,
                                   last_verified_hours_ago, pavilions)),
          meter |-> Len(table) + 1, created |-> TRUE]
    ELSE [table |-> [table EXCEPT
                       ![CHOOSE i \in MeterMatches(table, meter_number) : TRUE] =
                           Meter_assign(@, serial_number, location_name,
                                        last_verified_hours_ago, pavilions)],
          meter |-> CHOOSE i \in MeterMatches(table, meter_number) : TRUE,
          created |-> FALSE]

\* a faulty variant of the bookkeeping: the membership test is left out
Meter_record_unmatched_always(unmatched, location_name) ==
    Append(unmatched, location_name)

\* the unmatched-locations list after `if location_name not in ...: append`
Meter_record_unmatched(unmatched, location_name) ==
    IF location_name \notin Range(unmatched)
    THEN Append(unmatched, location_name)
    ELSE unmatched

\* what _process_row of the meter importer hands back to the model
MeterRowOut(S, skipped, pavilions, meter, created, reading) ==
    [S |-> S, skipped |-> skipped, pavilions |-> pavilions, meter |-> meter,
     created |-> created, reading |-> reading]

\* the call of _process_reading that ends the row
Meter_row_reading(pavilions, u, rd) ==
    MeterRowOut(rd.S, FALSE, pavilions, u.meter, u.created, rd.outcome)

\* the counters after get_or_create, then the reading
Meter_row_counted(S, pavilions, u, raw_reading, reading_date) ==
    Meter_row_reading(
        pavilions, u,
        Meter_process_reading(
            [S EXCEPT !.db.ElectricityMeter = u.table,
                      !.stats.meters_created = IF u.created THEN @ + 1 ELSE @,
                      !.stats.meters_updated = IF u.created THEN @ ELSE @ + 1],
            u.meter, raw_reading, reading_date))

\* the hours field: int(hours_ago_str) when it is all digits, else None
HoursAgo(hours_ago_str) ==
    IF hours_ago_str # <<>> /\ isdigit(hours_ago_str)
    THEN int(hours_ago_str) ELSE Null

\* the row once its pavilions are resolved
Meter_row_resolved(S, meter_number, serial_number, raw_reading, location_name, hours_ago_str, reading_date, pavilions) ==
    IF pavilions = <<>>
    THEN MeterRowOut([S EXCEPT !.stats.unmatched_pavilions =
                                   Meter_record_unmatched(@, location_name)],
                     FALSE, <<>>, NoneVal, FALSE, "none")
    ELSE IF Cardinality(MeterMatches(S.db.ElectricityMeter, meter_number)) > 1
    THEN \* get() raises MultipleObjectsReturned, caught by the row
         MeterRowOut([S EXCEPT !.errors =
                                   Append(@, [kind |-> "row_exception"])],
                     FALSE, pavilions, NoneVal, FALSE, "none")
    ELSE Meter_row_counted(
             S, pavilions,
             Meter_upsert(S.db.ElectricityMeter, meter_number, serial_number,
                          location_name, HoursAgo(hours_ago_str), pavilions),
             raw_reading, reading_date)

\* the row once its fields are stripped
Meter_row_fields(S, meter_number, serial_number, raw_reading, location_name, hours_ago_str, reading_date) ==
    IF meter_number = <<>> \/ location_name = <<>>
    THEN MeterRowOut(S, TRUE, <<>>, NoneVal, FALSE, "none")
    ELSE Meter_row_resolved(
             S, meter_number, serial_number, raw_reading, location_name,
             hours_ago_str, reading_date,
             Meter_find_pavilions_by_names(
                 S.db, Meter_expand_location_to_pavilion_names(location_name)))

\* _process_row: [S, skipped, pavilions, meter, created, reading]
Meter_process_row(S, row, reading_date) ==
    Meter_row_fields(S, strip(row.meter_number), strip(row.serial),
                     strip(row.reading), strip(row.location),
                     strip(row.hours), reading_date)

\* the meter table when meter.save() is reached: get_or_create has inserted
\* the meter from the defaults when it was absent, and pavilions.set() has
\* replaced its associations; the assignments are not stored yet
Meter_bound(table, meter_number, serial_number, location_name, last_verified_hours_ago, pavilions) ==
    IF MeterMatches(table, meter_number) = {}
    THEN Append(table,
                [Meter_defaults(meter_number, serial_number, location_name,
                                last_verified_hours_ago)
                    EXCEPT !.pavilions = Meter_set_pavilions(@, pavilions)])
    ELSE [table EXCEPT
            ![CHOOSE i \in MeterMatches(table, meter_number) : TRUE].pavilions =
                Meter_set_pavilions(@, pavilions)]

\* meter.save() raises in a row with the resolved pavilions: the except
\* clause of _process_row records the exception, the counters and the
\* reading are not reached; reached is FALSE when the row returns earlier
Meter_row_save_raised(S, meter_number, serial_number, location_name, hours_ago_str, pavilions) ==
    [reached |-> meter_number # <<>> /\ location_name # <<>> /\ pavilions # <<>>,
     S |-> [S EXCEPT !.db.ElectricityMeter =
                        Meter_bound(@, meter_number, serial_number,
                                    location_name, HoursAgo(hours_ago_str),
                                    pavilions),
                     !.errors = Append(@, [kind |-> "row_exception"])]]

\* _process_row when meter.save() raises
Meter_process_row_raising(S, row) ==
    Meter_row_save_raised(
        S, strip(row.meter_number), strip(row.serial), strip(row.location),
        strip(row.hours),
        Meter_find_pavilions_by_names(
            S.db, Meter_expand_location_to_pavilion_names(strip(row.location))))

(***************************************************************************)
(* Bounds and inputs                                                       *)
(***************************************************************************)
MaxRows    == 3      \* spreadsheet rows processed in one behaviour
MaxImports == 2      \* import_data calls in one behaviour
MaxSheets  == 2      \* reading sheets opened in one behaviour
MaxDate    == 3      \* sheet dates are 1..MaxDate
MaxFaults  == 1      \* raised exceptions and rejected files or sheets

\* datetime.now().date(), the date of a sheet whose label does not parse
Today == 2

Dates == 1..MaxDate

\* pavilion names of the registry
N_E11   == <<"E", "1", "/", "1">>
N_E12   == <<"E", "1", "/", "2">>
N_Pas61 == <<"P", "a", "s", "6", "1">>

\* The store the bulk loader, the administrators and an earlier meter import
\* left behind: two buildings, four pavilions (the name E1/1 present in both
\* buildings), and meter 7 on pavilion E1/2 with one reading of 100.00 on
\* day 2.
Pavilion0 ==
    [p \in 1..4 |->
        CASE p = 1 -> [name |-> N_E11, building |-> 1, tenant |-> NoneVal,
                       contract |-> NoneVal, status |-> "free"]
          [] p = 2 -> [name |-> N_E12, building |-> 2, tenant |-> NoneVal,
                       contract |-> NoneVal, status |-> "reserved"]
          [] p = 3 -> [name |-> N_Pas61, building |-> 1, tenant |-> NoneVal,
                       contract |-> NoneVal, status |-> "repair"]
          [] p = 4 -> [name |-> N_E11, building |-> 2, tenant |-> NoneVal,
                       contract |-> NoneVal, status |-> "free"]]

Db0 ==
    [Building |-> <<[name |-> OsnovnoyRynok], [name |-> Veshchevoy]>>,
     Tenant |-> <<>>, Contract |-> <<>>, Pavilion |-> Pavilion0,
     ElectricityMeter |->
        <<[meter_number |-> <<"7">>, serial_number |-> <<"S", "0">>,
           location |-> N_E12, last_verified_hours_ago |-> 3,
           pavilions |-> {2}]>>,
     ElectricityReading |->
        <<[meter |-> 1, date |-> 2, meter_reading |-> 10000,
           consumption |-> 0]>>]

\* location texts
L_E11_2  == <<"E", "1", "/", "1", ",", "2">>
L_Pas_61 == <<"P", "a", "s", " ", "6", "1">>
L_Z9     == <<"Z", "9">>
L_Z9_E12 == <<"Z", "9", ",", " ", "E", "1", "/", "2">>
L_Shared == <<"O", "b", "sch", "i", "j", " ", "E", "1", "/", "2", ",", " ",
              "Z", "9">>
L_E12kw  == <<"E", "1", "/", "2", " ", "5", "k", "v", "t">>

\* contract names: a known code, a known two-letter code, an unknown code
\* after other text, no code, a known code run on into a digit
C_V  == <<"K", "K", "/", "V", " ", "1">>
C_MB == <<"K", "K", "/", "M", "B", "-", "2">>
C_H  == <<"D", " ", "K", "K", "/", "H", "1">>
C_D  == <<"D", "5">>
C_V1 == <<"K", "K", "/", "V", "1">>

T1 == <<"T", "1">>
T2 == <<"T", "2">>

RosterRow(t, i, c, o) == [tenant |-> t, inn |-> i, contract |-> c, object |-> o]

RosterRows ==
    {RosterRow(T1, <<"7">>, C_V, L_E11_2),
     RosterRow(T1 \o <<" ">>, <<"8">>, C_MB, L_Pas_61),
     RosterRow(T2, <<>>, C_H, N_E11),
     RosterRow(T2, <<"7">>, C_D, L_Z9_E12),
     RosterRow(T1, <<>>, C_V, L_Z9),
     RosterRow(T2, <<"7">>, C_V1, N_Pas61),
     RosterRow(<<" ">>, <<"7">>, C_V, N_E11)}

MeterRow(n, s, r, l, h) ==
    [meter_number |-> n, serial |-> s, reading |-> r, location |-> l,
     hours |-> h]

MeterRows ==
    {MeterRow(<<"7">>, <<"S", "1">>, <<"1", "0", "0">>, L_E11_2, <<"5">>),
     MeterRow(<<"7">>, <<>>, <<"1", "5", "0", ",", "5">>, L_Pas_61,
              <<"n", "/", "a">>),
     MeterRow(<<"7">>, <<"S", "3">>, <<"4", "0", " ", "k", "v", "t">>,
              L_E12kw, <<"1", "2">>),
     MeterRow(<<"8">>, <<"S", "2">>, StaleMarker, L_Shared, <<"0">>),
     MeterRow(<<"8">>, <<"S", "2">>, <<"-">>, L_Shared, <<"0">>),
     MeterRow(<<"8">>, <<>>, <<"1", ".", "2", ".", "3">>, N_E11, <<>>),
     MeterRow(<<"7">>, <<"S", "4">>, <<"6", "0">>, L_Z9, <<"9">>),
     MeterRow(<<>>, <<"S", "5">>, <<"7", "0">>, N_E11, <<"1">>)}

\* a reading sheet: the date its label parses to (NoneVal when no format fits)
SheetLabels == Dates \cup {NoneVal}

(***************************************************************************)
(* State                                                                   *)
(***************************************************************************)
VARIABLES
    db,            \* the committed-or-in-transaction contents of the store
    before,        \* the store when the current import_data was called
    saved,         \* the store when the open transaction.atomic() was entered
    importer,      \* "none", "contracts" or "meter": the importer object
    pc,            \* "idle", "rows" (roster row loop), "sheets", "sheet_rows"
    stats,         \* importer.stats
    errors,        \* importer.errors
    reading_date,  \* the date of the sheet being processed
    returned,      \* what import_data returned: "none" (running), "True", "False"
    last,          \* the last operation and its locals
    budget         \* rows, imports, sheets and faults used so far

vars == <<db, before, saved, importer, pc, stats, errors, reading_date,
          returned, last, budget>>

S_now == [db |-> db, stats |-> stats, errors |-> errors]

\* a faulty variant of the exit with an exception: nothing is undone
Rollback_nothing(current, snapshot) == current

\* transaction.atomic().__exit__ with an exception: the store afterwards
Rollback(current, snapshot) == snapshot

Init ==
    /\ db = Db0
    /\ before = Db0
    /\ saved = Db0
    /\ importer = "none"
    /\ pc = "idle"
    /\ stats = <<>>
    /\ errors = <<>>
    /\ reading_date = NoneVal
    /\ returned = "none"
    /\ last = [op |-> "init"]
    /\ budget = [rows |-> 0, imports |-> 0, sheets |-> 0, faults |-> 0]

(***************************************************************************)
(* ContractsImporter.import_data                                           *)
(***************************************************************************)
\* the file is read, the sheet and its columns are found, and the
\* transaction is opened
ContractsImportStart ==
    /\ pc = "idle"
    /\ budget.imports < MaxImports
    /\ importer' = "contracts"
    /\ stats' = ContractsStats0
    /\ errors' = <<>>
    /\ returned' = "none"
    /\ before' = db
    /\ saved' = db
    /\ pc' = "rows"
    /\ last' = [op |-> "contracts_start"]
    /\ budget' = [budget EXCEPT !.imports = @ + 1]
    /\ UNCHANGED <<db, reading_date>>

\* the sheet is missing, columns are missing, or reading the file raises:
\* import_data returns False before the transaction is opened
ContractsImportRejected ==
    /\ pc = "idle"
    /\ budget.faults < MaxFaults
    /\ budget.imports < MaxImports
    /\ \E reason \in {"no_sheet", "missing_columns", "fault"} :
          errors' = <<[kind |-> reason]>>
    /\ importer' = "contracts"
    /\ stats' = ContractsStats0
    /\ returned' = "False"
    /\ before' = db
    /\ saved' = db
    /\ last' = [op |-> "contracts_rejected"]
    /\ budget' = [budget EXCEPT !.imports = @ + 1, !.faults = @ + 1]
    /\ UNCHANGED <<db, pc, reading_date>>

\* the state after _process_row returned r for row
ContractsRowDone(r, row) ==
    /\ ~r.raised
    /\ db' = r.S.db
    /\ stats' = r.S.stats
    /\ errors' = r.S.errors
    /\ last' = [op |-> "contracts_row", row |-> row,
                skipped |-> r.skipped, names |-> r.names,
                found |-> r.found, building |-> r.building,
                tenant |-> r.tenant, contract |-> r.contract,
                repeat |-> (last.op = "contracts_row" /\ last.row = row)]

\* one iteration of `for _, row in df.iterrows(): self._process_row(row)`
ContractsProcessRow ==
    /\ pc = "rows"
    /\ budget.rows < MaxRows
    /\ \E row \in RosterRows :
          ContractsRowDone(Contracts_process_row(S_now, row, "none"), row)
    /\ budget' = [budget EXCEPT !.rows = @ + 1]
    /\ UNCHANGED <<before, saved, importer, pc, reading_date, returned>>

\* _process_row raises: the exception leaves the atomic block, which rolls
\* the store back, and import_data records it and returns False
ContractsRowRaised(r, row, fault) ==
    /\ r.raised
    /\ stats' = r.S.stats
    /\ errors' = Append(r.S.errors, [kind |-> "fault"])
    /\ last' = [op |-> "contracts_fault", row |-> row, fault |-> fault,
                undone |-> (db # saved)]

ContractsRowFault ==
    /\ pc = "rows"
    /\ budget.faults < MaxFaults
    /\ budget.rows < MaxRows
    /\ \E row \in RosterRows, fault \in FaultPoints :
          ContractsRowRaised(Contracts_process_row(S_now, row, fault), row,
                             fault)
    /\ db' = Rollback(db, saved)
    /\ returned' = "False"
    /\ pc' = "idle"
    /\ budget' = [budget EXCEPT !.rows = @ + 1, !.faults = @ + 1]
    /\ UNCHANGED <<before, saved, importer, reading_date>>

\* the loop ends, the transaction commits, the temp file is removed
ContractsFinish ==
    /\ pc = "rows"
    /\ returned' = "True"
    /\ pc' = "idle"
    /\ last' = [op |-> "contracts_finish"]
    /\ UNCHANGED <<db, before, saved, importer, stats, errors, reading_date,
                   budget>>

\* the transaction commits and then removing the temp file raises
ContractsCleanupFault ==
    /\ pc = "rows"
    /\ budget.faults < MaxFaults
    /\ errors' = Append(errors, [kind |-> "fault"])
    /\ returned' = "False"
    /\ pc' = "idle"
    /\ last' = [op |-> "contracts_cleanup_fault"]
    /\ budget' = [budget EXCEPT !.faults = @ + 1]
    /\ UNCHANGED <<db, before, saved, importer, stats, reading_date>>

(***************************************************************************)
(* MeterImporter.import_data                                               *)
(***************************************************************************)
MeterImportStart ==
    /\ pc = "idle"
    /\ budget.imports < MaxImports
    /\ importer' = "meter"
    /\ stats' = MeterStats0
    /\ errors' = <<>>
    /\ returned' = "none"
    /\ before' = db
    /\ saved' = db
    /\ pc' = "sheets"
    /\ reading_date' = NoneVal
    /\ last' = [op |-> "meter_start", sheets |-> 0]
    /\ budget' = [budget EXCEPT !.imports = @ + 1]
    /\ UNCHANGED db

\* no sheet name starts with the marker, or reading the file raises
MeterImportRejected ==
    /\ pc = "idle"
    /\ budget.faults < MaxFaults
    /\ budget.imports < MaxImports
    /\ \E reason \in {"no_sheets", "fault"} : errors' = <<[kind |-> reason]>>
    /\ importer' = "meter"
    /\ stats' = MeterStats0
    /\ returned' = "False"
    /\ before' = db
    /\ saved' = db
    /\ reading_date' = NoneVal
    /\ last' = [op |-> "meter_rejected"]
    /\ budget' = [budget EXCEPT !.imports = @ + 1, !.faults = @ + 1]
    /\ UNCHANGED <<db, pc>>

\* the date of a sheet and the errors after its label was parsed
SheetDate(label) == IF label = NoneVal THEN Today ELSE label

DateErrors(errs, label) ==
    IF label = NoneVal THEN Append(errs, [kind |-> "date_fallback"]) ELSE errs

\* _process_sheet up to the entry of the atomic block
MeterSheetStart ==
    /\ pc = "sheets"
    /\ budget.sheets < MaxSheets
    /\ \E label \in SheetLabels :
          /\ reading_date' = SheetDate(label)
          /\ errors' = DateErrors(errors, label)
          /\ last' = [op |-> "sheet_start", label |-> label]
    /\ saved' = db
    /\ pc' = "sheet_rows"
    /\ budget' = [budget EXCEPT !.sheets = @ + 1]
    /\ UNCHANGED <<db, before, importer, stats, returned>>

\* a faulty variant: a sheet that _process_sheet gave up is counted as
\* processed
MeterSheetRejected_counted ==
    /\ pc = "sheets"
    /\ budget.faults < MaxFaults
    /\ budget.sheets < MaxSheets
    /\ \E label \in SheetLabels, reason \in {"missing_columns", "sheet_fault"} :
          /\ errors' = Append(DateErrors(errors, label),
                              [kind |-> reason, sheet |-> label])
          /\ last' = [op |-> "sheet_rejected", label |-> label]
    /\ stats' = [stats EXCEPT !.sheets_processed = @ + 1]
    /\ budget' = [budget EXCEPT !.sheets = @ + 1, !.faults = @ + 1]
    /\ UNCHANGED <<db, before, saved, importer, pc, reading_date, returned>>

\* _process_sheet returns False before the atomic block: a required column
\* is missing, or pd.read_excel raises
MeterSheetRejected ==
    /\ pc = "sheets"
    /\ budget.faults < MaxFaults
    /\ budget.sheets < MaxSheets
    /\ \E label \in SheetLabels, reason \in {"missing_columns", "sheet_fault"} :
          /\ errors' = Append(DateErrors(errors, label), [kind |-> reason, sheet |-> label])
          /\ last' = [op |-> "sheet_rejected", label |-> label]
    /\ budget' = [budget EXCEPT !.sheets = @ + 1, !.faults = @ + 1]
    /\ UNCHANGED <<db, before, saved, importer, pc, stats, reading_date,
                   returned>>

\* the state after _process_row returned r for row
MeterRowDone(r, row) ==
    /\ db' = r.S.db
    /\ stats' = r.S.stats
    /\ errors' = r.S.errors
    /\ last' = [op |-> "meter_row", row |-> row, skipped |-> r.skipped,
                pavilions |-> r.pavilions, meter |-> r.meter,
                created |-> r.created, reading |-> r.reading,
                repeat |-> (last.op = "meter_row" /\ last.row = row)]

\* one iteration of `for index, row in df.iterrows()` in _process_sheet
MeterProcessRow ==
    /\ pc = "sheet_rows"
    /\ budget.rows < MaxRows
    /\ \E row \in MeterRows :
          MeterRowDone(Meter_process_row(S_now, row, reading_date), row)
    /\ budget' = [budget EXCEPT !.rows = @ + 1]
    /\ UNCHANGED <<before, saved, importer, pc, reading_date, returned>>

\* a faulty variant: the exception of a row is not caught by the row and
\* leaves the atomic block of the sheet
MeterRowFault_propagates ==
    /\ pc = "sheet_rows"
    /\ budget.faults < MaxFaults
    /\ budget.rows < MaxRows
    /\ \E row \in MeterRows :
          /\ Meter_process_row_raising(S_now, row).reached
          /\ last' = [op |-> "meter_row_fault", row |-> row]
    /\ db' = Rollback(db, saved)
    /\ errors' = Append(errors, [kind |-> "sheet_fault"])
    /\ pc' = "sheets"
    /\ reading_date' = NoneVal
    /\ budget' = [budget EXCEPT !.rows = @ + 1, !.faults = @ + 1]
    /\ UNCHANGED <<before, saved, importer, stats, returned>>

\* an iteration of the row loop in which _process_row catches an exception of
\* its own body: the loop and the transaction of the sheet go on
MeterRowFault ==
    /\ pc = "sheet_rows"
    /\ budget.faults < MaxFaults
    /\ budget.rows < MaxRows
    /\ \E row \in MeterRows :
          /\ Meter_process_row_raising(S_now, row).reached
          /\ db' = Meter_process_row_raising(S_now, row).S.db
          /\ errors' = Meter_process_row_raising(S_now, row).S.errors
          /\ last' = [op |-> "meter_row_fault", row |-> row]
    /\ budget' = [budget EXCEPT !.rows = @ + 1, !.faults = @ + 1]
    /\ UNCHANGED <<before, saved, importer, pc, stats, reading_date, returned>>

\* the atomic block of the sheet commits; import_data counts the sheet
MeterSheetCommit ==
    /\ pc = "sheet_rows"
    /\ stats' = [stats EXCEPT !.sheets_processed = @ + 1]
    /\ pc' = "sheets"
    /\ last' = [op |-> "sheet_commit"]
    /\ reading_date' = NoneVal
    /\ UNCHANGED <<db, before, saved, importer, errors, returned, budget>>

\* an exception leaves the atomic block of the sheet (the commit fails, or
\* the row iterator raises): the sheet is rolled back and reported
MeterSheetFault ==
    /\ pc = "sheet_rows"
    /\ budget.faults < MaxFaults
    /\ db' = Rollback(db, saved)
    /\ errors' = Append(errors, [kind |-> "sheet_fault"])
    /\ pc' = "sheets"
    /\ last' = [op |-> "sheet_fault", undone |-> (db # saved)]
    /\ reading_date' = NoneVal
    /\ budget' = [budget EXCEPT !.faults = @ + 1]
    /\ UNCHANGED <<before, saved, importer, stats, returned>>

\* a faulty variant: import_data reports failure when errors were recorded
MeterFinish_failing_on_errors ==
    /\ pc = "sheets"
    /\ last.op \in {"sheet_commit", "sheet_fault", "sheet_rejected"}
    /\ returned' = IF errors = <<>> THEN "True" ELSE "False"
    /\ pc' = "idle"
    /\ last' = [op |-> "meter_finish"]
    /\ UNCHANGED <<db, before, saved, importer, stats, errors, reading_date,
                   budget>>

\* all sheets were handed to _process_sheet; the temp file is removed
MeterFinish ==
    /\ pc = "sheets"
    /\ last.op \in {"sheet_commit", "sheet_fault", "sheet_rejected"}
    /\ returned' = "True"
    /\ pc' = "idle"
    /\ last' = [op |-> "meter_finish"]
    /\ UNCHANGED <<db, before, saved, importer, stats, errors, reading_date,
                   budget>>

\* a faulty variant: the failed removal is not recorded
MeterCleanupFault_silent ==
    /\ pc = "sheets"
    /\ budget.faults < MaxFaults
    /\ last.op \in {"sheet_commit", "sheet_fault", "sheet_rejected"}
    /\ returned' = "False"
    /\ pc' = "idle"
    /\ last' = [op |-> "meter_cleanup_fault"]
    /\ budget' = [budget EXCEPT !.faults = @ + 1]
    /\ UNCHANGED <<db, before, saved, importer, stats, errors, reading_date>>

\* removing the temp file raises after the sheets were processed
MeterCleanupFault ==
    /\ pc = "sheets"
    /\ budget.faults < MaxFaults
    /\ last.op \in {"sheet_commit", "sheet_fault", "sheet_rejected"}
    /\ errors' = Append(errors, [kind |-> "fault"])
    /\ returned' = "False"
    /\ pc' = "idle"
    /\ last' = [op |-> "meter_cleanup_fault"]
    /\ budget' = [budget EXCEPT !.faults = @ + 1]
    /\ UNCHANGED <<db, before, saved, importer, stats, reading_date>>

(***************************************************************************)
(* admin.py: ElectricityReadingAdmin saves an existing reading             *)
(***************************************************************************)
AdminSaveReading ==
    /\ pc = "idle"
    /\ \E i \in DOMAIN db.ElectricityReading :
          /\ db' = [db EXCEPT !.ElectricityReading =
                       ElectricityReading_save(@, [id |-> i] @@ @[i])]
          /\ last' = [op |-> "admin_save_reading", reading |-> i]
    /\ UNCHANGED <<before, saved, importer, pc, stats, errors, reading_date,
                   returned, budget>>

Next ==
    \/ ContractsImportStart
    \/ ContractsImportRejected
    \/ ContractsProcessRow
    \/ ContractsRowFault
    \/ ContractsFinish
    \/ ContractsCleanupFault
    \/ MeterImportStart
    \/ MeterImportRejected
    \/ MeterSheetStart
    \/ MeterSheetRejected
    \/ MeterProcessRow
    \/ MeterRowFault
    \/ MeterSheetCommit
    \/ MeterSheetFault
    \/ MeterFinish
    \/ MeterCleanupFault
    \/ AdminSaveReading

Spec == Init /\ [][Next]_vars

\* roster imports only
NextContracts ==
    \/ ContractsImportStart
    \/ ContractsImportRejected
    \/ ContractsProcessRow
    \/ ContractsRowFault
    \/ ContractsFinish
    \/ ContractsCleanupFault

SpecContracts == Init /\ [][NextContracts]_vars

\* meter imports and the reading admin only
NextMeter ==
    \/ MeterImportStart
    \/ MeterImportRejected
    \/ MeterSheetStart
    \/ MeterSheetRejected
    \/ MeterProcessRow
    \/ MeterRowFault
    \/ MeterSheetCommit
    \/ MeterSheetFault
    \/ MeterFinish
    \/ MeterCleanupFault
    \/ AdminSaveReading

SpecMeter == Init /\ [][NextMeter]_vars

\* meter imports in which nothing raises: the loops of import_data and of
\* _process_sheet run over finite lists, so the commit of an open sheet and
\* the return of import_data cannot be put off forever
NextMeterRun ==
    \/ MeterImportStart
    \/ MeterSheetStart
    \/ MeterProcessRow
    \/ MeterSheetCommit
    \/ MeterFinish

SpecMeterRun ==
    /\ Init
    /\ [][NextMeterRun]_vars
    /\ WF_vars(MeterSheetCommit)
    /\ WF_vars(MeterFinish)

(***************************************************************************)
(* A meter spreadsheet imported twice                                      *)
(***************************************************************************)
MaxBookSheets == 2   \* reading sheets of a spreadsheet
MaxSheetRows  == 2   \* rows of a reading sheet

\* the reading sheets of a spreadsheet: a label that parses to a date, and
\* the rows
SheetRowLists == UNION {[1..n -> MeterRows] : n \in 0..MaxSheetRows}

BookSheets == [date : Dates, rows : SheetRowLists]

Books == UNION {[1..n -> BookSheets] : n \in 1..MaxBookSheets}

\* `for index, row in df.iterrows(): self._process_row(row, reading_date)`
RECURSIVE Meter_import_rows(_, _, _)
Meter_import_rows(S, rows, date) ==
    IF rows = <<>> THEN S
    ELSE Meter_import_rows(Meter_process_row(S, Head(rows), date).S,
                           Tail(rows), date)

\* the sheet loop of import_data over sheets that _process_sheet accepts
RECURSIVE Meter_import_sheets(_, _)
Meter_import_sheets(S, sheets) ==
    IF sheets = <<>> THEN S
    ELSE Meter_import_sheets(
             [Meter_import_rows(S, Head(sheets).rows, Head(sheets).date)
                 EXCEPT !.stats.sheets_processed = @ + 1],
             Tail(sheets))

\* import_data of a new MeterImporter on a spreadsheet nothing of which
\* raises: [db, stats, errors] when it returns
Meter_import_data(store, book) ==
    Meter_import_sheets([db |-> store, stats |-> MeterStats0, errors |-> <<>>],
                        book)

\* the state after the second of two import_data calls
MeterReimported(book, first, second) ==
    /\ saved' = first.db
    /\ db' = second.db
    /\ stats' = second.stats
    /\ errors' = second.errors
    /\ last' = [op |-> "reimport", book |-> book, first |-> first.stats]

\* the second call, on the store the first one left
MeterImportedOnce(book, first) ==
    MeterReimported(book, first, Meter_import_data(first.db, book))

\* one spreadsheet is handed to import_data of a new MeterImporter twice in
\* succession
MeterReimport ==
    /\ pc = "idle"
    /\ budget.imports = 0
    /\ \E book \in Books : MeterImportedOnce(book, Meter_import_data(db, book))
    /\ before' = db
    /\ importer' = "meter"
    /\ returned' = "True"
    /\ budget' = [budget EXCEPT !.imports = @ + 2]
    /\ UNCHANGED <<pc, reading_date>>

SpecReimport == Init /\ [][MeterReimport]_vars

(***************************************************************************)
(* Two roster imports at the same time                                     *)
(***************************************************************************)
\* two requests, each running ContractsImporter.import_data on a one-row
\* sheet; they share the store and interleave between the statements of
\* _process_row.  get_or_create is a get() and, when it finds nothing, a
\* create(); neither Tenant.name nor Contract.name is unique in the store.
\* Each importer reads what the other has written so far: an importer that
\* read only committed rows would find less, never more
Importers == {"a", "b"}

S_of(p) == [db |-> db, stats |-> stats[p], errors |-> errors[p]]

InitRace ==
    /\ db = Db0
    /\ before = Db0
    /\ saved = Db0
    /\ importer = "contracts"
    /\ pc = [p \in Importers |-> "idle"]
    /\ stats = [p \in Importers |-> ContractsStats0]
    /\ errors = [p \in Importers |-> <<>>]
    /\ reading_date = NoneVal
    /\ returned = [p \in Importers |-> "none"]
    /\ last = [p \in Importers |-> [op |-> "init"]]
    /\ budget = [rows |-> 0, imports |-> 0, sheets |-> 0, faults |-> 0]

\* the locals of _process_row after steps 1 to 3 gave building and r
RaceResolved(p, row, building, r) ==
    /\ db' = r.S.db
    /\ stats' = [stats EXCEPT ![p] = r.S.stats]
    /\ errors' = [errors EXCEPT ![p] = r.S.errors]
    /\ last' = [last EXCEPT ![p] =
                  [op |-> "row", row |-> row, building |-> building,
                   found |-> r.found, tenants |-> <<>>, hits |-> {},
                   tenant |-> NoneVal, contracts |-> 0, chits |-> {},
                   contract |-> NoneVal]]
    /\ pc' = [pc EXCEPT ![p] = IF r.found = <<>> THEN "commit"
                               ELSE "tenant_get"]

RaceBuilt(p, row, b) ==
    RaceResolved(p, row, b.building,
                 Contracts_resolve(
                     [S |-> b.S, found |-> <<>>],
                     expand_location_to_pavilion_names(strip(row.object)),
                     b.building, strip(row.contract)))

\* a row with an empty field returns at once
RaceSkipped(p, row) ==
    /\ last' = [last EXCEPT ![p] = [op |-> "skipped", row |-> row]]
    /\ pc' = [pc EXCEPT ![p] = "commit"]
    /\ UNCHANGED <<db, stats, errors>>

\* import_data up to step 3 of the row: the building and the pavilions
RaceStart(p) ==
    /\ pc[p] = "idle"
    /\ \E row \in RosterRows :
          IF strip(row.tenant) = <<>> \/ strip(row.contract) = <<>>
             \/ strip(row.object) = <<>>
          THEN RaceSkipped(p, row)
          ELSE RaceBuilt(p, row,
                         Contracts_get_building_from_contract(
                             S_of(p), strip(row.contract)))
    /\ UNCHANGED <<before, saved, importer, reading_date, returned, budget>>

\* a faulty variant of the get(): it finds nothing
RaceTenantGet_blind(p) ==
    /\ pc[p] = "tenant_get"
    /\ last' = [last EXCEPT ![p].tenants = db.Tenant, ![p].hits = {}]
    /\ pc' = [pc EXCEPT ![p] = "tenant_store"]
    /\ UNCHANGED <<db, before, saved, importer, stats, errors, reading_date,
                   returned, budget>>

\* step 4, the get() of Tenant.objects.get_or_create: the rows it finds, as
\* they are now
RaceTenantGet(p) ==
    /\ pc[p] = "tenant_get"
    /\ last' = [last EXCEPT
                  ![p].tenants = db.Tenant,
                  ![p].hits = Matches(db.Tenant, strip(last[p].row.tenant))]
    /\ pc' = [pc EXCEPT ![p] = "tenant_store"]
    /\ UNCHANGED <<db, before, saved, importer, stats, errors, reading_date,
                   returned, budget>>

\* the rest of step 4 on the result of the get(): create() when it found
\* nothing; else the INN of the object it returned is compared and the
\* object saved
Race_tenant_store(S, tenant_name, inn, hits, tenants) ==
    IF Cardinality(hits) # 1 THEN UpsertTenant(S, tenant_name, inn, hits)
    ELSE IF inn # <<>> /\ tenants[CHOOSE t \in hits : TRUE].inn # inn
    THEN [S |-> [S EXCEPT !.db.Tenant[CHOOSE t \in hits : TRUE] =
                             [name |-> tenant_name, inn |-> inn],
                          !.stats.tenants_updated = @ + 1],
          tenant |-> CHOOSE t \in hits : TRUE, raised |-> FALSE]
    ELSE [S |-> S, tenant |-> CHOOSE t \in hits : TRUE, raised |-> FALSE]

\* the state after a get_or_create gave r; get() raises when it finds two
\* rows, which a one-row sheet never meets, and import_data then returns False
RaceStored(p, r, next) ==
    /\ db' = r.S.db
    /\ stats' = [stats EXCEPT ![p] = r.S.stats]
    /\ pc' = [pc EXCEPT ![p] = IF r.raised THEN "done" ELSE next]
    /\ returned' = [returned EXCEPT ![p] = IF r.raised THEN "False" ELSE @]
    /\ errors' = [errors EXCEPT ![p] = IF r.raised
                                       THEN Append(@, [kind |-> "fault"])
                                       ELSE @]

RaceTenantStore(p) ==
    /\ pc[p] = "tenant_store"
    /\ RaceStored(p, Race_tenant_store(S_of(p), strip(last[p].row.tenant),
                                       strip(last[p].row.inn), last[p].hits,
                                       last[p].tenants),
                  "contract_get")
    /\ last' = [last EXCEPT ![p].tenant =
                  Race_tenant_store(S_of(p), strip(last[p].row.tenant),
                                    strip(last[p].row.inn), last[p].hits,
                                    last[p].tenants).tenant]
    /\ UNCHANGED <<before, saved, importer, reading_date, budget>>

\* step 5, the get() of Contract.objects.get_or_create
RaceContractGet(p) ==
    /\ pc[p] = "contract_get"
    /\ last' = [last EXCEPT
                  ![p].contracts = Len(db.Contract),
                  ![p].chits = Matches(db.Contract, strip(last[p].row.contract))]
    /\ pc' = [pc EXCEPT ![p] = "contract_store"]
    /\ UNCHANGED <<db, before, saved, importer, stats, errors, reading_date,
                   returned, budget>>

\* the rest of step 5: create() when the get() found nothing
RaceContractStore(p) ==
    /\ pc[p] = "contract_store"
    /\ RaceStored(p, UpsertContract(S_of(p), strip(last[p].row.contract),
                                    last[p].chits),
                  "link")
    /\ last' = [last EXCEPT ![p].contract =
                  UpsertContract(S_of(p), strip(last[p].row.contract),
                                 last[p].chits).contract]
    /\ UNCHANGED <<before, saved, importer, reading_date, budget>>

\* step 6 on the objects collected in step 3
RaceLink(p) ==
    /\ pc[p] = "link"
    /\ db' = Contracts_update_pavilions(S_of(p), last[p].found,
                                        last[p].building, last[p].tenant,
                                        last[p].contract).db
    /\ stats' = [stats EXCEPT ![p] =
                   Contracts_update_pavilions(S_of(p), last[p].found,
                                              last[p].building, last[p].tenant,
                                              last[p].contract).stats]
    /\ pc' = [pc EXCEPT ![p] = "commit"]
    /\ UNCHANGED <<before, saved, importer, errors, reading_date, returned,
                   last, budget>>

\* the atomic block is left and import_data returns True
RaceCommit(p) ==
    /\ pc[p] = "commit"
    /\ pc' = [pc EXCEPT ![p] = "done"]
    /\ returned' = [returned EXCEPT ![p] = "True"]
    /\ UNCHANGED <<db, before, saved, importer, stats, errors, reading_date,
                   last, budget>>

NextRace ==
    \/ \E p \in Importers : RaceStart(p)
    \/ \E p \in Importers : RaceTenantGet(p)
    \/ \E p \in Importers : RaceTenantStore(p)
    \/ \E p \in Importers : RaceContractGet(p)
    \/ \E p \in Importers : RaceContractStore(p)
    \/ \E p \in Importers : RaceLink(p)
    \/ \E p \in Importers : RaceCommit(p)

SpecRace == InitRace /\ [][NextRace]_vars

(***************************************************************************)
(* The name functions applied to location texts and name lists             *)
(***************************************************************************)
MaxTextLen == 6
MaxNames == 3

SeqsUpTo(A, n) == UNION {[1..k -> A] : k \in 0..n}

\* the characters location texts are made of: a letter, a digit, the
\* separators the expander and the normalizer look for
TextChars == {"E", "1", "/", ",", " ", "("}

SharedMarkerCapital == <<"O", "b", "sch", "i", "j", " ">>

\* location texts: any short text, alone or after the shared-meter marker
Texts ==
    SeqsUpTo(TextChars, MaxTextLen)
        \cup {SharedMarker \o t : t \in SeqsUpTo(TextChars, MaxTextLen - 1)}
        \cup {SharedMarkerCapital \o t : t \in SeqsUpTo(TextChars, MaxTextLen - 1)}

\* a store in which the spaced and the collapsed spelling name two pavilions
Pavilion1 ==
    <<[name |-> L_Pas_61, building |-> 1, status |-> "free",
       tenant |-> NoneVal, contract |-> NoneVal],
      [name |-> N_E12, building |-> 2, status |-> "reserved",
       tenant |-> NoneVal, contract |-> NoneVal],
      [name |-> N_Pas61, building |-> 1, status |-> "repair",
       tenant |-> NoneVal, contract |-> NoneVal],
      [name |-> N_E11, building |-> 2, status |-> "free",
       tenant |-> NoneVal, contract |-> NoneVal]>>

PavilionTables == {Pavilion0, Pavilion1}

ResolverNames == {N_E11, N_E12, L_Pas_61, N_Pas61, L_Z9, <<>>}

NameLists == SeqsUpTo(ResolverNames, MaxNames)

InitNames ==
    /\ \E table \in PavilionTables : db = [Db0 EXCEPT !.Pavilion = table]
    /\ before = Db0
    /\ saved = Db0
    /\ importer = "none"
    /\ pc = "idle"
    /\ stats = <<>>
    /\ errors = <<>>
    /\ reading_date = NoneVal
    /\ returned = "none"
    /\ budget = [rows |-> 0, imports |-> 0, sheets |-> 0, faults |-> 0]
    /\ \/ \E text \in Texts :
            /\ db = Db0
            /\ last = [op |-> "text", text |-> text]
       \/ \E names \in NameLists, building \in {NoneVal, 1, 2} :
            last = [op |-> "names", names |-> names, building |-> building]

\* normalize_single_name and expand_location_to_pavilion_names of the shared
\* module and of MeterImporter are called with one location text
ExpandText ==
    /\ last.op = "text"
    /\ last' = [op |-> "expanded", text |-> last.text,
                normalized |-> normalize_single_name(last.text),
                meter_normalized |-> Meter_normalize_single_name(last.text),
                names |-> expand_location_to_pavilion_names(last.text),
                meter_names |->
                    Meter_expand_location_to_pavilion_names(last.text)]
    /\ UNCHANGED <<db, before, saved, importer, pc, stats, errors,
                   reading_date, returned, budget>>

\* find_pavilions_by_names(names, building) of the shared module and
\* MeterImporter._find_pavilions_by_names(names) are called with one list
ResolveNames ==
    /\ last.op = "names"
    /\ last' = [op |-> "resolved", names |-> last.names,
                building |-> last.building,
                found |-> find_pavilions_by_names(db, last.names,
                                                  last.building),
                meter_found |-> Meter_find_pavilions_by_names(db, last.names)]
    /\ UNCHANGED <<db, before, saved, importer, pc, stats, errors,
                   reading_date, returned, budget>>

NextNames == ExpandText \/ ResolveNames

SpecNames == InitNames /\ [][NextNames]_vars

(***************************************************************************)
(* get_stats of the two importers                                          *)
(***************************************************************************)
\* ContractsImporter.get_stats()
Contracts_get_stats(self_stats, self_errors) ==
    [success |-> Len(self_errors) = 0, stats |-> self_stats,
     errors |-> self_errors,
     unmatched_count |-> Len(self_stats.unmatched_pavilions)]

\* MeterImporter.get_stats(), without the fields of the error report file
Meter_get_stats(self_stats, self_errors) ==
    [success |-> Len(self_errors) = 0, stats |-> self_stats,
     errors |-> self_errors,
     unmatched_count |-> Len(self_stats.unmatched_pavilions)]

TypeOK ==
    /\ importer \in {"none", "contracts", "meter"}
    /\ pc \in {"idle", "rows", "sheets", "sheet_rows"}
    /\ returned \in {"none", "True", "False"}

(***************************************************************************)
(* Properties of the roster import                                         *)
(***************************************************************************)
\* the step just taken processed a roster row
RosterRowStep == last'.op = "contracts_row"

\* the step just taken processed a meter row
MeterRowStep == last'.op = "meter_row"

\* the entries the step appended to errors
NewErrors == SubSeq(errors', Len(errors) + 1, Len(errors'))

\* C1: roster idempotence.  When the roster row just processed is the row
\* processed by the step before it, no pavilion is written, no tenant or
\* contract is created and none of the counters pavilions_updated,
\* tenants_created, tenants_updated, contracts_created moves; and on every
\* pass pavilions_updated is incremented exactly when a pavilion is written.
C1_RosterIdempotence ==
    [][RosterRowStep =>
          /\ last'.repeat =>
                /\ db'.Pavilion = db.Pavilion
                /\ db'.Tenant = db.Tenant
                /\ db'.Contract = db.Contract
                /\ stats'.pavilions_updated = stats.pavilions_updated
                /\ stats'.tenants_created = stats.tenants_created
                /\ stats'.tenants_updated = stats.tenants_updated
                /\ stats'.contracts_created = stats.contracts_created
          /\ (stats'.pavilions_updated > stats.pavilions_updated)
                <=> (db'.Pavilion # db.Pavilion)]_vars

\* a second pass over a row whose first pass linked pavilions
C1_Witness ==
    /\ last.op = "contracts_row"
    /\ last.repeat
    /\ ~last.skipped
    /\ last.found # <<>>
    /\ stats.pavilions_updated > 0
    /\ \A i \in DOMAIN last.found :
          /\ db.Pavilion[last.found[i]].tenant = last.tenant
          /\ db.Pavilion[last.found[i]].contract = last.contract

(***************************************************************************)
(* Properties of the readings                                              *)
(***************************************************************************)
\* the readings of meter m on date d in a readings table
ReadingsOn(table, m, d) ==
    {i \in DOMAIN table : table[i].meter = m /\ table[i].date = d}

\* the readings of meter m dated before d
ReadingsBefore(table, m, d) ==
    {i \in DOMAIN table : table[i].meter = m /\ table[i].date < d}

\* C2: duplicate-date guard.  A meter row whose meter already has a reading
\* on the date of the sheet leaves the readings table and readings_created
\* unchanged; when its reading text is parseable nothing is appended to
\* errors either; and after every step there is at most one reading per
\* (meter, date).
C2_DuplicateDateGuard ==
    [][/\ (MeterRowStep /\ last'.meter # NoneVal
           /\ ReadingsOn(db.ElectricityReading, last'.meter, reading_date) # {})
          => /\ db'.ElectricityReading = db.ElectricityReading
             /\ stats'.readings_created = stats.readings_created
             /\ (last'.reading = "duplicate" => errors' = errors)
       /\ \A i, j \in DOMAIN db'.ElectricityReading :
             (/\ db'.ElectricityReading[i].meter = db'.ElectricityReading[j].meter
              /\ db'.ElectricityReading[i].date = db'.ElectricityReading[j].date)
             => i = j]_vars

\* a parseable reading arrived for a pair that already had one
C2_Witness ==
    /\ last.op = "meter_row"
    /\ last.reading = "duplicate"
    /\ FloatOk(CleanReading(strip(last.row.reading)))
    /\ ReadingsOn(db.ElectricityReading, last.meter, reading_date) # {}

\* C3: consumption at creation.  The reading a meter row creates is the
\* value of the row for the meter and the date of the sheet, and its
\* consumption is that value minus the meter_reading of the reading of the
\* meter with the greatest earlier date, or 0 when the meter has no earlier
\* reading; readings of later dates play no part.
C3_ConsumptionAtCreation ==
    [][(MeterRowStep /\ last'.reading = "created") =>
          LET old == db.ElectricityReading
              new == db'.ElectricityReading[Len(db'.ElectricityReading)]
              earlier == ReadingsBefore(old, last'.meter, reading_date)
          IN  /\ Len(db'.ElectricityReading) = Len(old) + 1
              /\ SubSeq(db'.ElectricityReading, 1, Len(old)) = old
              /\ new.meter = last'.meter
              /\ new.date = reading_date
              /\ IF earlier = {}
                 THEN new.consumption = 0
                 ELSE \E i \in earlier :
                        /\ \A j \in earlier : old[j].date <= old[i].date
                        /\ new.consumption =
                              new.meter_reading - old[i].meter_reading]_vars

\* a reading was created after two earlier readings of different values
C3_Witness ==
    /\ last.op = "meter_row"
    /\ last.reading = "created"
    /\ LET t == db.ElectricityReading
           earlier == ReadingsBefore(t, last.meter, t[Len(t)].date)
       IN  /\ t[Len(t)].meter = last.meter
           /\ Cardinality(earlier) >= 2
           /\ \E i, j \in earlier : t[i].meter_reading # t[j].meter_reading
           /\ t[Len(t)].consumption # 0

\* C4: consumption is computed once.  No step changes the consumption of a
\* reading that is stored before and after it.
C4_ConsumptionComputedOnce ==
    [][\A i \in DOMAIN db.ElectricityReading \cap DOMAIN db'.ElectricityReading :
          db'.ElectricityReading[i].consumption =
              db.ElectricityReading[i].consumption]_vars

(***************************************************************************)
(* Properties of the transactions                                          *)
(***************************************************************************)
\* C5 as stated: after a fault that escaped the row loop of either importer
\* the store equals the store before the import.
C5_AllOrNothingImport ==
    last.op \in {"contracts_fault", "sheet_fault"} => db = before

\* C5: a fault that escapes the row loop undoes the transaction block it
\* occurred in.  In the roster import that block spans all rows, so the store
\* equals the store before the import; in the meter import it spans one
\* sheet, so the store equals the store at the start of that sheet and the
\* sheets committed earlier stay; a fault after the commit (removing the temp
\* file) undoes nothing.
C5_RollbackScope ==
    [][/\ last'.op = "contracts_fault" => db' = before
       /\ last'.op = "sheet_fault" => db' = saved
       /\ last'.op = "sheet_commit" => db' = db
       /\ last'.op \in {"contracts_cleanup_fault", "meter_cleanup_fault"}
             => db' = db]_vars

\* a sheet of a meter import failed after its rows had written to the store,
\* and an earlier sheet of the import had committed writes of its own
C5_Witness ==
    /\ last.op = "sheet_fault"
    /\ last.undone
    /\ db = saved
    /\ db # before

(***************************************************************************)
(* Properties of the meters                                                *)
(***************************************************************************)
\* the meters of a table that carry the number
MetersNumbered(table, number) ==
    {m \in DOMAIN table : table[m].meter_number = number}

\* the hours text is purely digits
PurelyDigits(text) == text # <<>> /\ \A i \in DOMAIN text : text[i] \in Digit

\* C6: meter re-binding replaces.  After a meter row whose location resolves
\* to a non-empty list of pavilions, the pavilions of its meter are exactly
\* the resolved ones, whatever the meter was bound to before, and every
\* other meter is as it was; a row that resolves to nothing, or is skipped,
\* leaves all meters as they were.
C6_RebindingReplaces ==
    [][MeterRowStep =>
          IF last'.meter # NoneVal
          THEN /\ last'.pavilions # <<>>
               /\ db'.ElectricityMeter[last'.meter].pavilions =
                     Range(last'.pavilions)
               /\ \A m \in DOMAIN db.ElectricityMeter :
                     m # last'.meter =>
                         db'.ElectricityMeter[m] = db.ElectricityMeter[m]
          ELSE db'.ElectricityMeter = db.ElectricityMeter]_vars

\* the meter registered on pavilion 2 was re-bound by a row that does not
\* resolve to pavilion 2
C6_Witness ==
    /\ last.op = "meter_row"
    /\ last.meter = 1
    /\ 2 \in Db0.ElectricityMeter[1].pavilions
    /\ 2 \notin db.ElectricityMeter[1].pavilions
    /\ db.ElectricityMeter[1].pavilions # {}

\* C7: meter upsert by meter_number.  A resolvable row creates its meter
\* exactly when no meter carried the number (meters_created + 1) and
\* otherwise updates the one that did (meters_updated + 1); no two meters
\* share a number; afterwards the location is the location text of the row,
\* the hours are the integer value of the hours text when it is purely digits
\* and null otherwise, and the serial is the serial of the row when that is
\* not empty and the serial stored before otherwise.
C7_MeterUpsert ==
    [][/\ (MeterRowStep /\ last'.meter # NoneVal) =>
             LET number == strip(last'.row.meter_number)
                 serial == strip(last'.row.serial)
                 hours  == strip(last'.row.hours)
                 had    == MetersNumbered(db.ElectricityMeter, number)
                 meter  == db'.ElectricityMeter[last'.meter]
             IN  /\ last'.created <=> (had = {})
                 /\ had # {} => last'.meter \in had
                 /\ had = {} => last'.meter \notin DOMAIN db.ElectricityMeter
                 /\ stats'.meters_created =
                       stats.meters_created + (IF had = {} THEN 1 ELSE 0)
                 /\ stats'.meters_updated =
                       stats.meters_updated + (IF had = {} THEN 0 ELSE 1)
                 /\ meter.meter_number = number
                 /\ meter.location = strip(last'.row.location)
                 /\ meter.last_verified_hours_ago =
                       (IF PurelyDigits(hours) THEN int(hours) ELSE Null)
                 /\ meter.serial_number =
                       (IF serial # <<>> THEN serial
                        ELSE IF had # {}
                        THEN db.ElectricityMeter[last'.meter].serial_number
                        ELSE <<>>)
       /\ \A m, n \in DOMAIN db'.ElectricityMeter :
             db'.ElectricityMeter[m].meter_number =
                 db'.ElectricityMeter[n].meter_number => m = n]_vars

\* an existing meter with stored hours and serial was updated by a row whose
\* hours text is not a number and whose serial is empty
C7_Witness ==
    /\ last.op = "meter_row"
    /\ last.meter = 1
    /\ ~last.created
    /\ strip(last.row.serial) = <<>>
    /\ ~PurelyDigits(strip(last.row.hours))
    /\ db.ElectricityMeter[1].last_verified_hours_ago = Null
    /\ db.ElectricityMeter[1].serial_number = Db0.ElectricityMeter[1].serial_number
    /\ Db0.ElectricityMeter[1].last_verified_hours_ago # Null

\* C8: unmatched tracking in the meter import.  A row whose location resolves
\* to no pavilion leaves the store and the counters meters_created,
\* meters_updated and readings_created as they were, and afterwards its
\* location text occurs exactly once in unmatched_pavilions; the list never
\* holds a text twice.
C8_UnmatchedTracking ==
    [][MeterRowStep =>
          /\ (~last'.skipped /\ last'.pavilions = <<>>) =>
                /\ db' = db
                /\ stats'.meters_created = stats.meters_created
                /\ stats'.meters_updated = stats.meters_updated
                /\ stats'.readings_created = stats.readings_created
                /\ Cardinality({i \in DOMAIN stats'.unmatched_pavilions :
                       stats'.unmatched_pavilions[i] =
                           strip(last'.row.location)}) = 1
          /\ \A i, j \in DOMAIN stats'.unmatched_pavilions :
                stats'.unmatched_pavilions[i] = stats'.unmatched_pavilions[j]
                    => i = j]_vars

\* the same unresolvable location arrived in two rows running
C8_Witness ==
    /\ last.op = "meter_row"
    /\ last.repeat
    /\ ~last.skipped
    /\ last.pavilions = <<>>
    /\ strip(last.row.location) \in Range(stats.unmatched_pavilions)

(***************************************************************************)
(* Properties of the building inference and the roster resolution          *)
(***************************************************************************)
\* the marker КК/ stands at position i of the name, followed by a code
\* character
MarkerAt(name, i) ==
    /\ i + 3 <= Len(name)
    /\ SubSeq(name, i, i + 2) = <<"K", "K", "/">>
    /\ name[i + 3] \in CodeChar

\* the name contains a code
HasCode(name) == \E i \in DOMAIN name : MarkerAt(name, i)

\* code is the code of the name: the marker at its first position in the
\* name with all the code characters that follow it
IsCodeOf(name, code) ==
    \E i \in DOMAIN name :
        /\ MarkerAt(name, i)
        /\ \A k \in 1..(i - 1) : ~MarkerAt(name, k)
        /\ i + Len(code) - 1 <= Len(name)
        /\ SubSeq(name, i, i + Len(code) - 1) = code
        /\ \A k \in 4..Len(code) : code[k] \in CodeChar
        /\ (i + Len(code) <= Len(name) => name[i + Len(code)] \notin CodeChar)

\* the step appended a warning about an unknown code in the contract name
WarnedUnknownCode(contract_name) ==
    \E i \in DOMAIN NewErrors :
        /\ NewErrors[i].kind = "unknown_code"
        /\ NewErrors[i].contract = contract_name

\* C9: building inference.  For a processed roster row: when the code of the
\* contract name is a known code the building is the one mapped to it and no
\* unknown-code warning is appended; when the name holds a code that is not
\* known the building is the default one and a warning naming the contract is
\* appended; when the name holds no code the building is the default one and
\* no warning is appended.  No two Buildings share a name.
C9_BuildingInference ==
    [][/\ (RosterRowStep /\ ~last'.skipped) =>
             LET contract_name == strip(last'.row.contract)
                 building_name == db'.Building[last'.building].name
                 known == {code \in BuildingCodes :
                              IsCodeOf(contract_name, code)}
             IN  /\ \A code \in known :
                        /\ building_name = BUILDING_CODE_MAP[code]
                        /\ ~WarnedUnknownCode(contract_name)
                 /\ (HasCode(contract_name) /\ known = {}) =>
                        /\ building_name = DEFAULT_BUILDING_NAME
                        /\ WarnedUnknownCode(contract_name)
                 /\ ~HasCode(contract_name) =>
                        /\ building_name = DEFAULT_BUILDING_NAME
                        /\ ~WarnedUnknownCode(contract_name)
       /\ \A a, b \in DOMAIN db'.Building :
             db'.Building[a].name = db'.Building[b].name => a = b]_vars

\* a contract name whose code runs on into a digit fell back to the default
\* building with a warning, in a store where a known code had created its
\* building
C9_Witness ==
    /\ last.op = "contracts_row"
    /\ ~last.skipped
    /\ strip(last.row.contract) = C_V1
    /\ db.Building[last.building].name = DEFAULT_BUILDING_NAME
    /\ \E i \in DOMAIN errors :
          /\ errors[i].kind = "unknown_code"
          /\ errors[i].contract = C_V1
    /\ \E b \in DOMAIN db.Building : db.Building[b].name = Stroitelnyy

\* the texts a name is looked up by: the name and the name without spaces
LookupTexts(name) == {name, RemoveWS(name)} \ {<<>>}

\* the pavilions of the table a name resolves to, in any building
ResolvesTo(table, name) ==
    {p \in DOMAIN table : table[p].name \in LookupTexts(name)}

\* those of them that stand in the building
ResolvesInside(table, name, building) ==
    {p \in ResolvesTo(table, name) : table[p].building = building}

\* the step appended a 'moved' warning for the name
WarnedMoved(name) ==
    \E i \in DOMAIN NewErrors :
        NewErrors[i].kind = "moved" /\ NewErrors[i].name = name

\* every 'moved' warning the step appended for the name gives the building
\* of a pavilion the name resolves to as the old one, the derived building
\* as the new one, and the contract
MovedWarningsNameBuildings(name) ==
    \A i \in DOMAIN NewErrors :
        (NewErrors[i].kind = "moved" /\ NewErrors[i].name = name) =>
            /\ \E p \in ResolvesTo(db.Pavilion, name) :
                  NewErrors[i].old = db.Building[db.Pavilion[p].building].name
            /\ NewErrors[i].new = db'.Building[last'.building].name
            /\ NewErrors[i].contract = strip(last'.row.contract)

\* C10: roster pavilion resolution.  For every expanded name of a processed
\* roster row, judged on the store before the row: a name found inside the
\* derived building is accepted (a pavilion of that building enters the
\* found list) with no warning; a name found only in other buildings is
\* accepted with a 'moved' warning naming the old building, the derived
\* building and the contract; a name is in unmatched_pavilions afterwards
\* exactly when it was there before or resolves in no building; and the list
\* never holds a name twice.
C10_RosterResolution ==
    [][(RosterRowStep /\ ~last'.skipped) =>
          /\ \A k \in DOMAIN last'.names :
                LET name == last'.names[k]
                    inside == ResolvesInside(db.Pavilion, name, last'.building)
                    anywhere == ResolvesTo(db.Pavilion, name)
                IN  /\ inside # {} =>
                          /\ Range(last'.found) \cap inside # {}
                          /\ ~WarnedMoved(name)
                    /\ (inside = {} /\ anywhere # {}) =>
                          /\ Range(last'.found) \cap anywhere # {}
                          /\ WarnedMoved(name)
                          /\ MovedWarningsNameBuildings(name)
                    /\ anywhere = {} => ~WarnedMoved(name)
                    /\ (name \in Range(stats'.unmatched_pavilions)) <=>
                          (name \in Range(stats.unmatched_pavilions)
                              \/ anywhere = {})
          /\ \A p \in Range(last'.found) :
                \E k \in DOMAIN last'.names :
                    p \in ResolvesTo(db.Pavilion, last'.names[k])
          /\ \A i, j \in DOMAIN stats'.unmatched_pavilions :
                stats'.unmatched_pavilions[i] = stats'.unmatched_pavilions[j]
                    => i = j]_vars

\* one row held a name found only in another building, with its warning in
\* errors, beside a name found nowhere
C10_Witness ==
    /\ last.op = "contracts_row"
    /\ ~last.skipped
    /\ Len(last.names) = 2
    /\ Len(last.found) = 1
    /\ db.Pavilion[last.found[1]].building = last.building
    /\ \E i \in DOMAIN errors :
          /\ errors[i].kind = "moved"
          /\ errors[i].contract = strip(last.row.contract)
          /\ errors[i].name \in Range(last.names)
          /\ errors[i].old # errors[i].new
    /\ \E k \in DOMAIN last.names :
          last.names[k] \in Range(stats.unmatched_pavilions)

(***************************************************************************)
(* Properties of the roster row                                            *)
(***************************************************************************)
\* the tenants of a table that carry the name
TenantsNamed(table, name) == {t \in DOMAIN table : table[t].name = name}

\* C11: a roster row for which no pavilion resolves is skipped.  Such a row
\* (its fields not empty, none of its expanded names found in any building)
\* leaves the Tenant, Contract and Pavilion tables and the counters
\* tenants_created, tenants_updated, contracts_created, contracts_updated and
\* pavilions_updated as they were.
C11_UnresolvedRowSkipped ==
    [][(/\ RosterRowStep
        /\ ~last'.skipped
        /\ \A k \in DOMAIN last'.names :
              ResolvesTo(db.Pavilion, last'.names[k]) = {})
       => /\ last'.found = <<>>
          /\ db'.Tenant = db.Tenant
          /\ db'.Contract = db.Contract
          /\ db'.Pavilion = db.Pavilion
          /\ stats'.tenants_created = stats.tenants_created
          /\ stats'.tenants_updated = stats.tenants_updated
          /\ stats'.contracts_created = stats.contracts_created
          /\ stats'.contracts_updated = stats.contracts_updated
          /\ stats'.pavilions_updated = stats.pavilions_updated]_vars

\* a row with a tenant and a contract unknown to the store resolved no
\* pavilion and left the store without tenants and contracts
C11_Witness ==
    /\ last.op = "contracts_row"
    /\ ~last.skipped
    /\ last.names # <<>>
    /\ last.found = <<>>
    /\ last.names[1] \in Range(stats.unmatched_pavilions)
    /\ TenantsNamed(db.Tenant, strip(last.row.tenant)) = {}
    /\ db.Contract = <<>>

\* C12: tenant upsert by name.  A roster row that resolved a pavilion creates
\* a tenant with its name and INN (tenants_created + 1) exactly when no
\* tenant carried the name; otherwise no tenant is created, and the INN of
\* the tenant with the name is overwritten by the INN of the row
\* (tenants_updated + 1) exactly when that INN is not empty and differs from
\* the stored one.  No two tenants share a name.
C12_TenantUpsert ==
    [][/\ (RosterRowStep /\ ~last'.skipped /\ last'.found # <<>>) =>
             LET name == strip(last'.row.tenant)
                 inn  == strip(last'.row.inn)
                 had  == TenantsNamed(db.Tenant, name)
                 t    == last'.tenant
             IN  IF had = {}
                 THEN /\ db'.Tenant = Append(db.Tenant, [name |-> name, inn |-> inn])
                      /\ t = Len(db'.Tenant)
                      /\ stats'.tenants_created = stats.tenants_created + 1
                      /\ stats'.tenants_updated = stats.tenants_updated
                 ELSE /\ t \in had
                      /\ stats'.tenants_created = stats.tenants_created
                      /\ IF inn # <<>> /\ db.Tenant[t].inn # inn
                         THEN /\ db'.Tenant = [db.Tenant EXCEPT ![t].inn = inn]
                              /\ stats'.tenants_updated = stats.tenants_updated + 1
                         ELSE /\ db'.Tenant = db.Tenant
                              /\ stats'.tenants_updated = stats.tenants_updated
       /\ \A a, b \in DOMAIN db'.Tenant :
             db'.Tenant[a].name = db'.Tenant[b].name => a = b]_vars

\* the INN of an existing tenant was overwritten by a row with another INN
C12_Witness ==
    /\ last.op = "contracts_row"
    /\ last.found # <<>>
    /\ stats.tenants_created = 1
    /\ stats.tenants_updated = 1
    /\ Len(db.Tenant) = 1
    /\ db.Tenant[last.tenant].inn = strip(last.row.inn)
    /\ strip(last.row.inn) # <<>>

\* C13: roster link postcondition.  After a roster row that resolved at
\* least one pavilion, every pavilion resolved for it has the derived
\* building, the tenant of the row, the contract of the row and the status
\* rented, whatever its status was; the tenant and the contract carry the
\* names of the row.
C13_LinkPostcondition ==
    [][(RosterRowStep /\ ~last'.skipped /\ last'.found # <<>>) =>
          /\ last'.tenant \in DOMAIN db'.Tenant
          /\ db'.Tenant[last'.tenant].name = strip(last'.row.tenant)
          /\ last'.contract \in DOMAIN db'.Contract
          /\ db'.Contract[last'.contract].name = strip(last'.row.contract)
          /\ last'.building \in DOMAIN db'.Building
          /\ \A k \in DOMAIN last'.found :
                LET pav == db'.Pavilion[last'.found[k]]
                IN  /\ pav.building = last'.building
                    /\ pav.tenant = last'.tenant
                    /\ pav.contract = last'.contract
                    /\ pav.status = "rented"
                    /\ pav.name = db.Pavilion[last'.found[k]].name]_vars

\* pavilions that were reserved and under repair before the imports are
\* rented after rows that resolved them
C13_Witness ==
    /\ last.op = "contracts_row"
    /\ last.found # <<>>
    /\ Db0.Pavilion[last.found[1]].status \in {"reserved", "repair"}
    /\ db.Pavilion[last.found[1]].status = "rented"
    /\ db.Pavilion[last.found[1]].tenant = last.tenant
    /\ \E p \in DOMAIN db.Pavilion :
          /\ p # last.found[1]
          /\ Db0.Pavilion[p].status \in {"reserved", "repair"}
          /\ db.Pavilion[p].status = "rented"

\* the steps of the meter import and of the reading admin
MeterSideOps ==
    {"meter_start", "meter_rejected", "sheet_start", "sheet_rejected",
     "meter_row", "meter_row_fault", "sheet_commit", "sheet_fault",
     "meter_finish", "meter_cleanup_fault", "admin_save_reading"}

\* C14: the imports create and delete no pavilion.  Every step of a roster
\* import and of a meter import leaves the set of pavilion records and their
\* names as they were, and a step of the meter import changes no field of
\* any pavilion.
C14_PavilionsNeitherCreatedNorDeleted ==
    [][/\ DOMAIN db'.Pavilion = DOMAIN db.Pavilion
       /\ \A p \in DOMAIN db.Pavilion :
             db'.Pavilion[p].name = db.Pavilion[p].name
       /\ last'.op \in MeterSideOps => db'.Pavilion = db.Pavilion]_vars

\* a meter row bound a meter to a pavilion that a roster import had linked to
\* a tenant before, names unknown to the store were met on both sides, and
\* the pavilions are the four of the beginning
C14_Witness ==
    /\ last.op = "meter_row"
    /\ last.meter # NoneVal
    /\ \E p \in db.ElectricityMeter[last.meter].pavilions :
          db.Pavilion[p].tenant # NoneVal
    /\ importer = "meter"
    /\ stats.unmatched_pavilions # <<>>
    /\ DOMAIN db.Pavilion = DOMAIN Db0.Pavilion

(***************************************************************************)
(* Properties of the meter import's sheets and reading texts               *)
(***************************************************************************)
\* the steps taken inside the sheet loop of a meter import and at its end
SheetLoopOps ==
    {"sheet_start", "sheet_rejected", "meter_row", "meter_row_fault",
     "sheet_commit", "sheet_fault", "meter_finish", "meter_cleanup_fault"}

\* C19: per-sheet failure.  A reading sheet given up before its rows are
\* read (a required column is missing) changes neither the store nor the
\* counters, appends as last error one that names the sheet, and leaves the
\* import in its sheet loop with nothing returned; sheets_processed starts
\* at 0 and grows, by one, exactly at the commit of a sheet.
C19_SheetFailure ==
    [][/\ last'.op = "sheet_rejected" =>
             /\ db' = db
             /\ stats' = stats
             /\ Len(errors') > Len(errors)
             /\ SubSeq(errors', 1, Len(errors)) = errors
             /\ errors'[Len(errors')].sheet = last'.label
             /\ pc' = "sheets"
             /\ returned' = "none"
       /\ last'.op = "meter_start" => stats'.sheets_processed = 0
       /\ last'.op \in SheetLoopOps =>
             stats'.sheets_processed =
                stats.sheets_processed
                + (IF last'.op = "sheet_commit" THEN 1 ELSE 0)]_vars

\* after a sheet without a required column, a second sheet was processed and
\* committed with a new reading; one sheet is counted
C19_Witness ==
    /\ last.op = "sheet_commit"
    /\ budget.sheets = 2
    /\ stats.sheets_processed = 1
    /\ stats.readings_created = 1
    /\ \E k \in DOMAIN errors : errors[k].kind = "missing_columns"
    /\ db.ElectricityReading # saved.ElectricityReading

\* C20: reading text classification.  For a meter row whose meter was
\* upserted: a text holding the stale-communication marker appends one error
\* naming the meter and creates no reading; otherwise a text that cleans to
\* nothing creates no reading and appends no error; otherwise a cleaned text
\* that is no decimal appends one error and creates no reading; only
\* otherwise a reading may be appended.  In every case the meter carries the
\* number and the location of the row, is bound to the resolved pavilions and
\* was counted as created or updated.
C20_ReadingClassification ==
    [][(MeterRowStep /\ last'.meter # NoneVal) =>
          LET raw     == strip(last'.row.reading)
              cleaned == CleanReading(raw)
              number  == strip(last'.row.meter_number)
              meter   == db'.ElectricityMeter[last'.meter]
              same    == db'.ElectricityReading = db.ElectricityReading
              counted == stats'.readings_created = stats.readings_created
          IN  /\ meter.meter_number = number
              /\ meter.location = strip(last'.row.location)
              /\ meter.pavilions = Range(last'.pavilions)
              /\ stats'.meters_created + stats'.meters_updated =
                    stats.meters_created + stats.meters_updated + 1
              /\ IF Contains(raw, StaleMarker)
                 THEN /\ same /\ counted
                      /\ Len(NewErrors) = 1
                      /\ NewErrors[1].kind = "stale"
                      /\ NewErrors[1].meter = number
                 ELSE IF cleaned = <<>>
                 THEN same /\ counted /\ NewErrors = <<>>
                 ELSE IF ~FloatOk(cleaned)
                 THEN /\ same /\ counted
                      /\ Len(NewErrors) = 1
                      /\ NewErrors[1].kind = "invalid_reading"
                      /\ NewErrors[1].meter = number
                 ELSE /\ NewErrors = <<>>
                      /\ \/ same /\ counted
                         \/ /\ Len(db'.ElectricityReading) =
                                  Len(db.ElectricityReading) + 1
                            /\ stats'.readings_created =
                                  stats.readings_created + 1]_vars

\* one sheet held a row with the marker, a row with an unparseable text and a
\* row whose text cleans to nothing: two errors, no new reading, and the
\* meter of the rows created and bound
C20_Witness ==
    /\ last.op = "meter_row"
    /\ last.meter # NoneVal
    /\ last.reading = "empty"
    /\ \E j, k \in DOMAIN errors :
          errors[j].kind = "stale" /\ errors[k].kind = "invalid_reading"
    /\ db.ElectricityReading = Db0.ElectricityReading
    /\ last.meter \notin DOMAIN Db0.ElectricityMeter
    /\ db.ElectricityMeter[last.meter].pavilions # {}
    /\ stats.meters_created = 1
    /\ stats.meters_updated = 2

(***************************************************************************)
(* Properties of the faults                                                *)
(***************************************************************************)
\* the steps in which import_data, _process_sheet or _process_row gave up
FaultOps ==
    {"contracts_rejected", "contracts_fault", "contracts_cleanup_fault",
     "meter_rejected", "sheet_rejected", "sheet_fault", "meter_row_fault",
     "meter_cleanup_fault"}

\* those of them that happen inside an open transaction
FaultOpsInTransaction == {"contracts_fault", "sheet_fault", "meter_row_fault"}

\* those of them that end import_data
FaultOpsTopLevel ==
    {"contracts_rejected", "contracts_fault", "contracts_cleanup_fault",
     "meter_rejected", "meter_cleanup_fault"}

BusinessError ==
    /\ last.op = "meter_row"
    /\ \/ last.skipped
       \/ last.meter = NoneVal
       \/ last.reading \in {"stale", "invalid", "duplicate"}

\* C15: business errors of a row do not stop a meter import.  The row
\* leaves the import in the row loop of its sheet with nothing returned; the
\* row processed next is processed on the store the error row left, with
\* all its effects; and the import goes on to return True.
C15_BusinessErrorsDoNotStop ==
    /\ [][/\ (MeterRowStep /\ BusinessError') =>
                pc' = "sheet_rows" /\ returned' = "none"
          /\ (BusinessError /\ MeterRowStep) =>
                /\ db' = Meter_process_row(S_now, last'.row, reading_date).S.db
                /\ stats' = Meter_process_row(S_now, last'.row, reading_date).S.stats
          /\ (BusinessError /\ last'.op = "sheet_commit") => db' = db]_vars
    /\ BusinessError ~> (returned = "True")

\* an import returned True after two sheets, three rows, one of them with the
\* stale-communication marker, the other two creating a reading each
C15_Witness ==
    /\ last.op = "meter_finish"
    /\ returned = "True"
    /\ budget.rows = 3
    /\ budget.sheets = 2
    /\ stats.sheets_processed = 2
    /\ stats.readings_created = 2
    /\ errors # <<>>
    /\ errors[1].kind = "stale"

(***************************************************************************)
(* Properties of the repeated meter import                                 *)
(***************************************************************************)
\* C17: meter re-import idempotence.  When a spreadsheet whose sheet labels
\* parse to dates was imported twice in succession, the store after the
\* second import is the store after the first one (meters, their fields and
\* pavilions, readings and consumptions), and the second import counted no
\* meter and no reading as created.
C17_MeterReimportIdempotence ==
    last.op = "reimport" =>
        /\ db = saved
        /\ stats.meters_created = 0
        /\ stats.readings_created = 0

\* the first import created a meter and two readings and changed the store;
\* the second one updated meters and met errors of its rows again
C17_Witness ==
    /\ last.op = "reimport"
    /\ last.first.meters_created = 1
    /\ last.first.readings_created = 2
    /\ db # before
    /\ db = saved
    /\ stats.meters_updated = 3
    /\ stats.sheets_processed = 2
    /\ errors # <<>>

(***************************************************************************)
(* Properties of concurrent roster imports                                 *)
(***************************************************************************)
\* importer p left the phase: the step was its own
RaceStep(p, phase) == pc[p] = phase /\ pc'[p] # phase

\* C18: concurrent roster imports are not protected.  An importer creates a
\* tenant (a contract) although one with the name is stored only when that
\* one was inserted after the importer's get() had found nothing: the window
\* between the two halves of get_or_create is open to the other importer,
\* and nothing else lets two records share a name.
C18_RaceWindow ==
    [][\A p \in Importers :
          /\ (RaceStep(p, "tenant_store")
              /\ Len(db'.Tenant) > Len(db.Tenant)) =>
                /\ last[p].hits = {}
                /\ \A t \in Matches(db.Tenant, strip(last[p].row.tenant)) :
                      t > Len(last[p].tenants)
          /\ (RaceStep(p, "contract_store")
              /\ Len(db'.Contract) > Len(db.Contract)) =>
                /\ last[p].chits = {}
                /\ \A c \in Matches(db.Contract, strip(last[p].row.contract)) :
                      c > last[p].contracts]_vars

\* both imports returned True, and the store holds two tenants with one name
\* and two contracts with one name
C18_Witness ==
    /\ \A p \in Importers : pc[p] = "done" /\ returned[p] = "True"
    /\ \E t, u \in DOMAIN db.Tenant :
          t # u /\ db.Tenant[t].name = db.Tenant[u].name
    /\ \E c, d \in DOMAIN db.Contract :
          c # d /\ db.Contract[c].name = db.Contract[d].name
    /\ \A p \in Importers : stats[p].tenants_created = 1
    /\ \A p \in Importers : stats[p].contracts_created = 1

(***************************************************************************)
(* Properties of the name functions                                        *)
(***************************************************************************)
\* the pavilion of the first form of a name that has a store match: the name
\* as written, else the name without whitespace; NoneVal when neither has
FirstStoreMatch(d, name, building) ==
    IF name = <<>> THEN NoneVal
    ELSE IF PavilionFirst(d, name, building) # NoneVal
    THEN PavilionFirst(d, name, building)
    ELSE IF RemoveWS(name) = <<>> THEN NoneVal
    ELSE PavilionFirst(d, RemoveWS(name), building)

\* the position of the first name whose first store match is the pavilion
FirstNaming(d, names, building, p) ==
    CHOOSE i \in DOMAIN names :
        /\ FirstStoreMatch(d, names[i], building) = p
        /\ \A j \in 1..(i - 1) : FirstStoreMatch(d, names[j], building) # p

\* found holds, once each and in the order of their first naming, the first
\* store matches of the names
StopsAtFirstMatch(d, names, building, found) ==
    /\ \A i, j \in DOMAIN found : i # j => found[i] # found[j]
    /\ Range(found) =
          {FirstStoreMatch(d, names[i], building) : i \in DOMAIN names}
              \ {NoneVal}
    /\ \A i, j \in DOMAIN found :
          i < j => FirstNaming(d, names, building, found[i])
                      < FirstNaming(d, names, building, found[j])

\* C21: each resolver tries a name as written and then without whitespace
\* and stops at the first form that has a store match, so a list of names
\* yields the first store matches of its names, each pavilion once, in the
\* order of first match, all of the building when one is given.
C21_ResolverStopsAtFirstMatch ==
    [][ResolveNames =>
          /\ StopsAtFirstMatch(db, last.names, last.building, last'.found)
          /\ StopsAtFirstMatch(db, last.names, NoneVal, last'.meter_found)
      ]_vars

\* the trimmed text starts, whatever the case of its letters, with the
\* shared-meter marker
IsMarked(text) ==
    /\ Len(strip(text)) >= Len(SharedMarker)
    /\ \A i \in DOMAIN SharedMarker :
          LowerChar(strip(text)[i]) = SharedMarker[i]

\* the trimmed text after the marker
MarkedRest(text) ==
    strip(SubSeq(strip(text), Len(SharedMarker) + 1, Len(strip(text))))

CommasOf(rest) == {k \in DOMAIN rest : rest[k] = ","}

\* the text of the first listed pavilion: the text before the first comma,
\* trimmed, or the whole text when there is no comma
FirstPavilionText(rest) ==
    IF CommasOf(rest) = {} THEN rest
    ELSE strip(SubSeq(rest, 1,
                      (CHOOSE k \in CommasOf(rest) :
                          \A j \in CommasOf(rest) : k <= j) - 1))

\* a name and, when different, the name without whitespace
Candidates(name) ==
    IF name = RemoveWS(name) THEN <<name>> ELSE <<name, RemoveWS(name)>>

\* C22: for a text that starts with the shared-meter marker both expanders
\* return only the candidates of the first listed pavilion: the normalized
\* text between the marker and the first comma and, when different, that
\* name without whitespace; nothing of a later comma-part.
C22_SharedMeterNotation ==
    [][ExpandText /\ IsMarked(last.text) =>
          /\ last'.names =
                Candidates(normalize_single_name(
                    FirstPavilionText(MarkedRest(last.text))))
          /\ last'.meter_names =
                Candidates(Meter_normalize_single_name(
                    FirstPavilionText(MarkedRest(last.text))))
      ]_vars

\* a marked text with a later comma-part was expanded to the two spellings
\* of its first pavilion
C22_Witness ==
    /\ last.op = "expanded"
    /\ IsMarked(last.text)
    /\ \E k \in CommasOf(MarkedRest(last.text)) :
          strip(SubSeq(MarkedRest(last.text), k + 1,
                       Len(MarkedRest(last.text)))) # <<>>
    /\ Len(last.names) = 2
    /\ Len(last.meter_names) = 2

\* the position of the n-th comma of a text
NthComma(base, n) ==
    CHOOSE k \in CommasOf(base) :
        Cardinality({j \in CommasOf(base) : j < k}) = n - 1

\* the n-th comma-part of a text, trimmed
Segment(base, n) ==
    strip(SubSeq(base,
                 IF n = 1 THEN 1 ELSE NthComma(base, n - 1) + 1,
                 IF n = Cardinality(CommasOf(base)) + 1 THEN Len(base)
                 ELSE NthComma(base, n) - 1))

\* the non-empty comma-parts of a text, in the order of the text
NonEmptyParts(base) ==
    SelectSeq([n \in 1..(Cardinality(CommasOf(base)) + 1) |-> Segment(base, n)],
              LAMBDA part : part # <<>>)

\* the lengths j for which a name is <something>/ then whitespace up to j,
\* then only digits up to its end
PrefixEnds(first) ==
    {j \in 2..(Len(first) - 1) :
        /\ \A i \in (j + 1)..Len(first) : first[i] \in Digit
        /\ \E s \in 2..j :
              /\ first[s] = "/"
              /\ \A i \in (s + 1)..j : first[i] \in WS}

\* the prefix of such a name, its whitespace removed
PrefixOf(first) ==
    RemoveWS(SubSeq(first, 1, CHOOSE j \in PrefixEnds(first) : TRUE))

\* names is the expansion the comma-list rule gives for the parts
ListExpansion(parts, first, names) ==
    /\ Len(names) = Len(parts)
    /\ \A i \in DOMAIN parts :
          names[i] =
              IF i = 1 THEN first
              ELSE IF PrefixEnds(first) # {} /\ PurelyDigits(parts[i])
              THEN PrefixOf(first) \o parts[i]
              ELSE normalize_single_name(parts[i])

UnmarkedList(text) == ~IsMarked(text) /\ CommasOf(strip(text)) # {}

FirstOf(parts) == IF parts = <<>> THEN <<>> ELSE normalize_single_name(parts[1])

\* C23: for a text with commas and without the marker both expanders return
\* one name per non-empty comma-part, in the order of the text: the first
\* part normalized; when that name ends in <prefix>/<digits>, each later
\* part of digits only as the prefix, its whitespace removed, followed by
\* the part, and each other part normalized on its own; when it does not,
\* every part normalized on its own.
C23_CommaLists ==
    [][ExpandText /\ UnmarkedList(last.text) =>
          /\ ListExpansion(NonEmptyParts(strip(last.text)),
                           FirstOf(NonEmptyParts(strip(last.text))),
                           last'.names)
          /\ ListExpansion(NonEmptyParts(strip(last.text)),
                           FirstOf(NonEmptyParts(strip(last.text))),
                           last'.meter_names)
      ]_vars

\* a list whose first name has whitespace inside its prefix was expanded,
\* and a later part of digits took the prefix without the whitespace
C23_Witness ==
    /\ last.op = "expanded"
    /\ UnmarkedList(last.text)
    /\ Len(last.names) = 2
    /\ PrefixEnds(last.names[1]) # {}
    /\ \E i \in DOMAIN last.names[1] : last.names[1][i] \in WS
    /\ PurelyDigits(NonEmptyParts(strip(last.text))[2])
    /\ last.names[2] = PrefixOf(last.names[1]) \o NonEmptyParts(strip(last.text))[2]
    /\ last.meter_names = last.names

\* C24: a text that is empty after trimming expands to the empty sequence,
\* and no expansion of any text holds an empty name.
C24_NoEmptyName ==
    [][ExpandText =>
          /\ strip(last.text) = <<>> => last'.names = <<>>
          /\ \A i \in DOMAIN last'.names : last'.names[i] # <<>>
      ]_vars

SpacesOf(r) == {k \in DOMAIN r : r[k] = " "}

\* the positions at which the annotation " (" starts
AnnotationsOf(r) == {k \in 1..(Len(r) - 1) : r[k] = " " /\ r[k + 1] = "("}

\* the trimmed name, cut before its first annotation and trimmed again
WithoutAnnotation(name) ==
    IF AnnotationsOf(strip(name)) = {} THEN strip(name)
    ELSE strip(SubSeq(strip(name), 1,
                      (CHOOSE k \in AnnotationsOf(strip(name)) :
                          \A j \in AnnotationsOf(strip(name)) : k <= j) - 1))

FirstSpace(r) == CHOOSE k \in SpacesOf(r) : \A j \in SpacesOf(r) : k <= j

LastSpace(r) == CHOOSE k \in SpacesOf(r) : \A j \in SpacesOf(r) : k >= j

LeadingToken(r) == SubSeq(r, 1, FirstSpace(r) - 1)

\* the name cut to its leading token when the text before the space at
\* position k ends in a digit
CutWhenDigitBefore(r, k) ==
    IF k > 1 /\ r[k - 1] \in Digit THEN LeadingToken(r) ELSE r

TruncatedAtFirstSpace(r) ==
    IF SpacesOf(r) = {} THEN r ELSE CutWhenDigitBefore(r, FirstSpace(r))

TruncatedAtLastSpace(r) ==
    IF SpacesOf(r) = {} THEN r ELSE CutWhenDigitBefore(r, LastSpace(r))

\* C25 as stated: the name without its annotation is cut to its leading
\* token when the token before its last space ends in a digit, and is
\* returned unchanged otherwise.
C25_TruncatesAtLastSpace ==
    [][ExpandText =>
          /\ last'.normalized =
                TruncatedAtLastSpace(WithoutAnnotation(last.text))
          /\ last'.meter_normalized =
                TruncatedAtLastSpace(WithoutAnnotation(last.text))
      ]_vars

\* C25: both normalizers trim the name, cut it before its first annotation
\* " (", and then cut it to its leading token when it has a space and the
\* token before its first space ends in a digit; otherwise they return it
\* unchanged.  A code followed by a suffix is cut to the code, a name whose
\* first token does not end in a digit is preserved.
C25_TruncatesAtFirstSpace ==
    [][ExpandText =>
          /\ last'.normalized =
                TruncatedAtFirstSpace(WithoutAnnotation(last.text))
          /\ last'.meter_normalized =
                TruncatedAtFirstSpace(WithoutAnnotation(last.text))
      ]_vars

\* a name with two spaces was cut to its leading token although the token
\* before its last space does not end in a digit
C25_Witness ==
    /\ last.op = "expanded"
    /\ Cardinality(SpacesOf(WithoutAnnotation(last.text))) = 2
    /\ last.normalized = LeadingToken(WithoutAnnotation(last.text))
    /\ last.meter_normalized = last.normalized
    /\ TruncatedAtLastSpace(WithoutAnnotation(last.text))
          = WithoutAnnotation(last.text)

\* C27: for every store and every list of names the resolver of the meter
\* importer returns what the shared resolver returns without a building.
C27_ResolversAgree ==
    [][ResolveNames /\ last.building = NoneVal =>
          last'.meter_found = last'.found]_vars

(***************************************************************************)
(* Further properties of the roster import                                 *)
(***************************************************************************)
\* no two pavilions of the table share building and name
PavilionsDistinct(table) ==
    \A p, q \in DOMAIN table :
        p # q => \/ table[p].building # table[q].building
                 \/ table[p].name # table[q].name

\* the pavilions a step moved to another building
MovedBy(old, new) ==
    {p \in DOMAIN old \cap DOMAIN new : old[p].building # new[p].building}

\* C26: roster imports keep the pair (building, name) unique.  Every step
\* of a sequence of roster imports leaves no two pavilions with the same
\* building and name, and a pavilion moved to another building finds there
\* no pavilion of its name.
C26_PavilionIdentityPreserved ==
    [][/\ PavilionsDistinct(db'.Pavilion)
       /\ \A p \in MovedBy(db.Pavilion, db'.Pavilion) :
             \A q \in DOMAIN db.Pavilion :
                 q # p /\ db.Pavilion[q].building = db'.Pavilion[p].building
                     => db.Pavilion[q].name # db'.Pavilion[p].name
      ]_vars

\* a roster row moved a pavilion to another building with a 'moved' warning
\* while another building holds a pavilion of some shared name
C26_Witness ==
    /\ last.op = "contracts_row"
    /\ MovedBy(Db0.Pavilion, db.Pavilion) # {}
    /\ \E i \in DOMAIN errors : errors[i].kind = "moved"
    /\ \E p, q \in DOMAIN db.Pavilion :
          p # q /\ db.Pavilion[p].name = db.Pavilion[q].name

\* the 'moved' warnings a step recorded
MovedWarnings(old, new) ==
    {i \in (Len(old) + 1)..Len(new) : new[i].kind = "moved"}

\* C28: within one roster row each pavilion is collected, saved and counted
\* once.  The list of collected pavilions holds no pavilion twice,
\* pavilions_updated grows by at most the number of distinct pavilions
\* collected, and the row records at most one 'moved' warning for each.
C28_PavilionOncePerRow ==
    [][RosterRowStep =>
          /\ \A i, j \in DOMAIN last'.found :
                i # j => last'.found[i] # last'.found[j]
          /\ stats'.pavilions_updated - stats.pavilions_updated
                <= Cardinality(Range(last'.found))
          /\ Cardinality(MovedWarnings(errors, errors'))
                <= Cardinality(Range(last'.found))
      ]_vars

\* the pavilions whose row differs between two tables
ChangedPavilions(old, new) ==
    {p \in DOMAIN new : p \notin DOMAIN old \/ old[p] # new[p]}

\* a roster import has ended and import_data has returned
RosterImportEnded ==
    /\ importer = "contracts"
    /\ pc = "idle"
    /\ returned \in {"True", "False"}

\* C29: the counters of a roster import that has ended, with True or with
\* False after a fault, tell what the import left in the store:
\* tenants_created and contracts_created are the numbers of tenants and
\* contracts the store gained, and pavilions_updated is zero when the
\* writes of the import were rolled back and covers every changed pavilion
\* otherwise.
C29_CountersMatchStore ==
    RosterImportEnded =>
        /\ stats.tenants_created = Len(db.Tenant) - Len(before.Tenant)
        /\ stats.contracts_created = Len(db.Contract) - Len(before.Contract)
        /\ last.op = "contracts_fault" => stats.pavilions_updated = 0
        /\ stats.pavilions_updated
              >= Cardinality(ChangedPavilions(before.Pavilion, db.Pavilion))

(***************************************************************************)
(* Properties of the reports                                               *)
(***************************************************************************)
\* the report of the importer that ran last
Report ==
    IF importer = "contracts" THEN Contracts_get_stats(stats, errors)
    ELSE Meter_get_stats(stats, errors)

\* C30: the report of either importer is consistent.  success holds exactly
\* when no error is recorded, unmatched_count is the number of unmatched
\* names, and whenever import_data has returned False an error is recorded,
\* so that success is false.
C30_ReportConsistent ==
    importer # "none" =>
        /\ Report.success <=> errors = <<>>
        /\ Report.unmatched_count = Len(stats.unmatched_pavilions)
        /\ returned = "False" => errors # <<>> /\ ~Report.success

\* a meter import whose sheets recorded no error returned False because the
\* temp file could not be removed, and the report says so
C30_Witness ==
    /\ importer = "meter"
    /\ last.op = "meter_cleanup_fault"
    /\ returned = "False"
    /\ Len(errors) = 1
    /\ stats.sheets_processed >= 1
    /\ ~Report.success

=============================================================================
